---- MODULE Spec2Model ----
(***************************************************************************)
(* The scraper service of seya: the consumer loop (main.py), the record    *)
(* handler (handlers.py) and the fetch-and-store pipeline with its         *)
(* admission governor (fetcher.py).                                        *)
(*                                                                         *)
(* Every record is handled by one coroutine.  A step of the model is the   *)
(* code a coroutine runs from one await to the next; the outcome of the    *)
(* awaited call (an HTTP response, a raised error, a failed send) is drawn *)
(* with \E.  task[i] holds the coroutine's position and locals, hist[i]    *)
(* what an observer of record i has seen (calls made, events published).   *)
(*                                                                         *)
(* acquire_domain_slot creates the semaphore of a domain it has not seen   *)
(* with asyncio.semaphore (fetcher.py:36), a name the asyncio module does  *)
(* not have, so the call raises AttributeError and registers nothing.  The *)
(* pipeline behind the governor is therefore reached only for a domain     *)
(* whose semaphore is already in domain_locks, a public module-level       *)
(* dictionary: Init registers the domains of Registered and leaves         *)
(* FreshDomain as fetcher.py:22 leaves every domain.                       *)
(***************************************************************************)
EXTENDS Integers, Sequences, FiniteSets

\* ---------------------------------------------------------------- state
VARIABLES
    task,                    \* per record: position and locals of its coroutine
    hist,                    \* per record: calls made and events published
    domain_locks,            \* fetcher.domain_locks: permits left, or NoSem
    global_semaphore,        \* fetcher.global_semaphore: permits left
    domain_last_req,         \* fetcher.domain_last_req
    message_task_semaphore,  \* handlers._message_task_semaphore
    now,                     \* the event loop's clock
    loop,                    \* main._consumer_loop: position, offsets
    r2,                      \* the bucket: key -> sha256 of its metadata
    metadata,                \* the rows of table metadata
    today,                   \* the UTC date the storage keys are built from
    calc,                    \* SpecPure: the calls of the pure functions
    default_semaphore        \* playwright_render._default_semaphore: permits

\* ---------------------------------------------------------------- bounds
NumTasks == 3               \* records handled in one run of the model
Concurrency == 2            \* settings.concurrency (configurable)
PerDomainConcurrency == 1   \* settings.per_domain_concurrency (configurable)
MaxBytes == 2               \* max_bytes, in chunks
PrefTotal == 1              \* pref_total of a prefetched body, in chunks
MaxRenders == 2             \* concurrent calls of render_page_and_upload

\* ----------------------------------------------------- program constants
fetch_retries == 2
upload_retries == 2
db_retries == 3
per_domain_delay_s == 2     \* settings.per_domain_delay_s, in clock ticks
max_scrolls == 12           \* render_page_and_upload(max_scrolls=12)
zeros_required == 5         \* max(1, int(require_zero_duration_ms / 100))
wait_for_no_inflight == 30  \* wait_for_no_inflight_ms, in poll intervals

Tasks == 1..NumTasks
\* Registered: the domains whose semaphore is in domain_locks, enough of them
\* for the global limit to be reached by tasks that all hold a domain permit.
Registered == 1..((Concurrency \div PerDomainConcurrency) + 1)
FreshDomain == Cardinality(Registered) + 1
Domains == 1..FreshDomain
NoSem == -1
\* set_render_sem(max(1, min(4, settings.concurrency // 2)))
RenderLimit == IF Concurrency \div 2 < 1 THEN 1
               ELSE IF Concurrency \div 2 > 4 THEN 4 ELSE Concurrency \div 2
None == 0
Statuses == {200, 404, 429, 500}
Rests == 0..MaxBytes        \* chunks of the body that follow the prefetch

\* Storage keys: raw/<date>/sha256-<url_hash>.html.gz and
\* rendered/<date>/sha256-<url_hash>.rendered.html.gz.  The model has one
\* URL per domain, so a URL is named by its domain.
Days == {1, 2}               \* the UTC date the run starts on, and the next
Keys == {"raw", "rendered"} \X Days \X Domains
s3_key_for_raw(day, url) == <<"raw", day, url>>
rendered_key(day, url) == <<"rendered", day, url>>

\* What head_object finds under a key: no object, an object without a
\* sha256 in its metadata, or the sha256.
NoObject == "absent"
NoSha == "nosha"
Hashes == {"h1", "h2"}

\* old_sha = meta.get("sha256") if meta else None
old_sha(found) == IF found \in Hashes THEN found ELSE "None"

\* can_fetch_via_robots: only a robots.txt answered with 200 whose rules
\* disallow the path denies; an unreachable or missing file allows.
RobotsFiles == {"unreachable", "not_found", "allows", "disallows"}
can_fetch_via_robots(robots) == robots # "disallows"

\* UPSERT_METADATA_SQL on the rows of table metadata (url is UNIQUE): a
\* new url gets a row with a fresh id, a known url keeps its row and id
\* and has its other columns (here the two storage keys and content_hash)
\* overwritten.
Upsert(rows, url, raw, rendered, h) ==
    IF \E r \in rows : r.url = url
    THEN {IF r.url = url
          THEN [r EXCEPT !.r2_key_raw = raw, !.r2_key_rendered = rendered,
                         !.content_hash = h]
          ELSE r : r \in rows}
    ELSE rows \cup {[url |-> url, id |-> Cardinality(rows) + 1,
                     r2_key_raw |-> raw, r2_key_rendered |-> rendered,
                     content_hash |-> h]}

\* A storage key argument that is None, a column that is NULL.
NoKey == <<"None", 0, 0>>

\* upsert_metadata runs the statement with (url, url_hash, domain,
\* r2_key_raw, None, None, ...): its r2_key_rendered parameter is not
\* among the values.
upsert_metadata(rows, url, r2_key_raw, r2_key_rendered, h) ==
    Upsert(rows, url, r2_key_raw, NoKey, h)

\* The table has a row for this url with this content_hash.
Unchanged(rows, url, h) ==
    \E r \in rows : r.url = url /\ r.content_hash = h

\* RETURNING id
RowId(rows, url) == (CHOOSE r \in rows : r.url = url).id

\* ------------------------------------------------------- pure functions

\* The Content-Type values that contain "text/html".
HtmlTypes == {"text/html", "text/html; charset=utf-8"}

\* A classifier with a hidden state: every other call answers False.
detect_spa_bytes_counting(pg, hd) ==
    IF calc.calls % 2 = 1 THEN FALSE
    ELSE pg.root \/ pg.react \/ (pg.scripts >= 3 /\ pg.len < 8000)

\* detect_spa_bytes: pg describes the prefetched bytes (SPA root marker,
\* hydration marker, number of <script tags, length), hd the headers dict.
detect_spa_bytes(pg, hd) ==
    IF pg.root THEN TRUE
    ELSE IF pg.scripts >= 3 /\ pg.len < 8000 THEN TRUE
    ELSE IF pg.react THEN TRUE
    ELSE LET ct == IF hd.key = "content-type" THEN hd.value ELSE ""
         IN  ct \in HtmlTypes /\ pg.scripts >= 1 /\ pg.len < 2000

PlainPage == [root |-> FALSE, react |-> FALSE, scripts |-> 0, len |-> 500]
AppPage == [root |-> TRUE, react |-> FALSE, scripts |-> 1, len |-> 500]
Pages == {PlainPage, AppPage}
HtmlHeaders == [key |-> "Content-Type", value |-> "text/html"]

\* 2 ** attempt
RECURSIVE Pow2(_)
Pow2(n) == IF n = 0 THEN 1 ELSE 2 * Pow2(n - 1)

Min(a, b) == IF a <= b THEN a ELSE b

\* A backoff_delay that does not apply the cap.
backoff_delay_uncapped(attempt, base, cap) == base * Pow2(attempt)

\* backoff_delay: delay = base*(2**attempt); return min(delay, cap)
backoff_delay(attempt, base, cap) == Min(base * Pow2(attempt), cap)

\* An exception is its class and, for ClientResponseError, its status.
Exc(cls, st) == [cls |-> cls, status |-> st]
NoExc == Exc("none", 0)

\* A classifier that takes every exception for a transient one.
is_transient_always(e) == e = e

is_transient_fetch_exception(e) ==
    IF e.cls = "ClientResponseError"
    THEN e.status >= 500 \/ e.status = 429
    ELSE TRUE

\* The status check of fetch_and_store: which responses raise.
IsClientError(st) == 400 <= st /\ st < 500 /\ st # 429

\* The streaming loop over the chunks that follow the prefetch: "too_large"
\* as soon as the running total exceeds max_bytes, "ok" at the end of body.
RECURSIVE StreamBody(_, _)
StreamBody(total, rest) ==
    IF rest = 0 THEN "ok"
    ELSE IF total + 1 > MaxBytes THEN "too_large"
    ELSE StreamBody(total + 1, rest - 1)

\* ------------------------------------------------------- state functions
vars == <<task, hist, domain_locks, global_semaphore, domain_last_req,
          message_task_semaphore, now, loop, r2, metadata, today, calc,
          default_semaphore>>

gov == <<domain_locks, global_semaphore, domain_last_req>>

store == <<r2, metadata, today>>

\* What no step of the consumer loop and of the governor writes.
aux == <<calc, default_semaphore>>

\* No pure function has been called.
NoCalc ==
    [pg |-> PlainPage, hd |-> HtmlHeaders, verdict |-> "none",
     again |-> "none", calls |-> 0,
     attempt |-> -1, base |-> 0, cap |-> 0, delay |-> 0, prev |-> 0]

IdleTask ==
    [pc |-> "idle", kind |-> "ok", dom |-> 1, attempt |-> 0, uattempt |-> 0,
     dattempt |-> 0, temp |-> "none", hashed |-> FALSE, branch |-> "static",
     status |-> 0, rest |-> 0, exc |-> NoExc, raising |-> "none",
     doc_id |-> None, sha |-> "unbound", old_sha |-> "None", wake |-> 0,
     cond |-> 0, last_height |-> 0, scroll |-> 0, zeros_seen |-> 0,
     deadline |-> 0, settled |-> "unbound"]

NoHist ==
    [admitted |-> FALSE, gets |-> 0, resps |-> <<>>, sleeps |-> 0,
     renders |-> 0, lookups |-> 0, uploads |-> 0, stored |-> 0,
     upserts |-> 0, writes |-> 0, rewrites |-> 0, spacing |-> 0,
     raws |-> 0, usleeps |-> 0, dsleeps |-> 0,
     browser |-> "none", page |-> "none", gotos |-> <<>>, permit |-> 0,
     racquires |-> 0, rreleases |-> 0,
     scrolls |-> 0, stable |-> FALSE, run |-> 0, overdue |-> FALSE,
     held |-> 0, releases |-> 0, temps |-> 0, transients |-> 0, faults |-> 0,
     send_failures |-> 0, too_large |-> FALSE, cancelled |-> FALSE,
     events |-> <<>>]

Init ==
    /\ task = [i \in Tasks |-> IdleTask]
    /\ hist = [i \in Tasks |-> NoHist]
    /\ domain_locks = [d \in Domains |->
                          IF d \in Registered THEN PerDomainConcurrency ELSE NoSem]
    /\ global_semaphore = Concurrency
    /\ domain_last_req = [d \in Domains |-> 0]
    /\ message_task_semaphore = Concurrency * 2
    /\ now = 0
    /\ loop = [pc |-> "poll", next |-> 1, fetched |-> 0, committed |-> 0]
    /\ r2 = [k \in Keys |-> NoObject]
    /\ metadata = {}
    /\ today = 1
    /\ calc = NoCalc
    /\ default_semaphore = RenderLimit

T(i) == task[i]
H(i) == hist[i]

\* A coroutine that has ended has no locals left; the record's kind and
\* the state of its scratch file stay for the observer.
Returned(t) ==
    [IdleTask EXCEPT !.pc = "done", !.kind = t.kind, !.temp = t.temp]

\* fetch_and_store has raised into the except clause of handle_record.
Raised(t) ==
    [Returned(t) EXCEPT !.pc = "hr_except", !.exc = t.exc, !.dom = t.dom]

\* str(ev.link) of record i, a URL of domain d as it was received: with
\* an upper-case host, with a trailing slash and a fragment, or plain.
Link(i, d) ==
    [netloc |-> d, upper_host |-> i % 3 = 1, trailing_slash |-> i % 3 = 0,
     fragment |-> i % 3 = 0]

\* A normalize_url that returns its argument.
normalize_url_skipped(u) == u

\* normalize_url: lower-case netloc, no trailing slash on the path, and
\* the fragment is not part of the result.
normalize_url(u) ==
    [u EXCEPT !.upper_host = FALSE, !.trailing_slash = FALSE,
              !.fragment = FALSE]

\* producer.send_and_wait(topic, payload) for record i: the event is on the
\* topic when the call returns, and is not when it raises.
Event(i, topic, reason) ==
    [topic |-> topic, reason |-> reason, doc_id |-> T(i).doc_id,
     url |-> IF reason = "processing_error" THEN Link(i, T(i).dom)
             ELSE normalize_url(Link(i, T(i).dom)),
     correlationId |-> i,
     error |-> IF topic = "dlq" THEN T(i).exc.cls ELSE "none",
     uploads |-> H(i).uploads, writes |-> H(i).writes]

Sent(i, ok, topic, reason) ==
    IF ok THEN [H(i) EXCEPT !.events = Append(@, Event(i, topic, reason))]
    ELSE [H(i) EXCEPT !.send_failures = @ + 1]

KafkaError == Exc("KafkaError", 0)

\* ------------------------------------------------- admission governor

\* acquire_domain_slot that goes on to the global semaphore without
\* sem.acquire().
acquire_sem_skipped(i) ==
    /\ T(i).pc = "acq_dom"
    /\ task' = [task EXCEPT ![i] =
           IF domain_locks[T(i).dom] = NoSem
           THEN Raised([@ EXCEPT !.exc = Exc("AttributeError", 0)])
           ELSE [@ EXCEPT !.pc = "acq_glob"]]
    /\ UNCHANGED <<hist, gov, message_task_semaphore, now, aux, store, loop>>

\* acquire_domain_slot, up to sem.acquire(): an unseen domain raises
\* AttributeError out of fetch_and_store (the call is outside its try).
acquire_sem(i) ==
    LET d == T(i).dom IN
    /\ T(i).pc = "acq_dom"
    /\ domain_locks[d] # NoSem => domain_locks[d] > 0
    /\ IF domain_locks[d] = NoSem
       THEN /\ task' = [task EXCEPT ![i] =
                           Raised([@ EXCEPT !.exc = Exc("AttributeError", 0)])]
            /\ UNCHANGED domain_locks
       ELSE /\ task' = [task EXCEPT ![i] = [@ EXCEPT !.pc = "acq_glob"]]
            /\ domain_locks' = [domain_locks EXCEPT ![d] = @ - 1]
    /\ UNCHANGED <<hist, global_semaphore, domain_last_req,
                   message_task_semaphore, now, aux, store, loop>>

\* global_semaphore.acquire() that does not wait for a permit.
acquire_global_no_wait(i) ==
    /\ T(i).pc = "acq_glob"
    /\ global_semaphore' = global_semaphore - 1
    /\ task' = [task EXCEPT ![i] = [@ EXCEPT !.pc = "polite"]]
    /\ hist' = [hist EXCEPT ![i] = [@ EXCEPT !.held = 1]]
    /\ UNCHANGED <<domain_locks, domain_last_req, message_task_semaphore,
                   now, aux, store, loop>>

\* await global_semaphore.acquire()
acquire_global(i) ==
    /\ T(i).pc = "acq_glob"
    /\ global_semaphore > 0
    /\ global_semaphore' = global_semaphore - 1
    /\ task' = [task EXCEPT ![i] = [@ EXCEPT !.pc = "polite"]]
    /\ hist' = [hist EXCEPT ![i] = [@ EXCEPT !.held = 1]]
    /\ UNCHANGED <<domain_locks, domain_last_req, message_task_semaphore,
                   now, aux, store, loop>>

\* await polite_wait(domain); acquire_domain_slot returns, temp_name = None
\* and the attempt loop starts.  The clock stands still in Spec and
\* SpecBurst, and the sleep is a step like any other await; SpecClock has
\* the step with its arithmetic (polite_wait_timed, polite_sleep).
polite_wait(i) ==
    /\ T(i).pc = "polite"
    /\ task' = [task EXCEPT ![i] = [@ EXCEPT !.pc = "get", !.attempt = 0,
                                     !.temp = "none"]]
    /\ hist' = [hist EXCEPT ![i] = [@ EXCEPT !.admitted = TRUE]]
    /\ UNCHANGED <<gov, message_task_semaphore, now, aux, store, loop>>

\* A release_domain_slot that gives back the domain's permit only.
release_domain_only(d) ==
    /\ domain_locks' = [domain_locks EXCEPT
                           ![d] = IF @ = NoSem THEN @ ELSE @ + 1]
    /\ domain_last_req' = [domain_last_req EXCEPT ![d] = now]
    /\ UNCHANGED global_semaphore

\* release_domain_slot(d): asyncio.Semaphore.release never raises.
release_domain_slot(d) ==
    /\ global_semaphore' = global_semaphore + 1
    /\ domain_locks' = [domain_locks EXCEPT
                           ![d] = IF @ = NoSem THEN @ ELSE @ + 1]
    /\ domain_last_req' = [domain_last_req EXCEPT ![d] = now]

\* ------------------------------------------------- fetch_and_store

\* resp = await session.get(...), then the early status check.
session_get(i) ==
    /\ T(i).pc = "get"
    /\ \E out \in {0} \cup Statuses :
          IF out = 0
          THEN /\ task' = [task EXCEPT ![i] = [@ EXCEPT !.pc = "handler",
                                   !.exc = Exc("ClientConnectorError", 0)]]
               /\ hist' = [hist EXCEPT ![i] = [@ EXCEPT !.gets = @ + 1,
                                                         !.faults = @ + 1]]
          ELSE /\ task' = [task EXCEPT ![i] = [@ EXCEPT
                              !.status = out,
                              !.pc = IF IsClientError(out) THEN "handler"
                                     ELSE "prefetch",
                              !.exc = IF IsClientError(out)
                                      THEN Exc("ClientResponseError", out)
                                      ELSE @]]
               /\ hist' = [hist EXCEPT ![i] = [@ EXCEPT !.gets = @ + 1,
                                               !.resps = Append(@, out)]]
    /\ UNCHANGED <<gov, message_task_semaphore, now, aux, store, loop>>

\* The prefetch loop and detect_spa_bytes; a static page gets its scratch
\* file here (no await between the verdict and NamedTemporaryFile).
prefetch(i) ==
    /\ T(i).pc = "prefetch"
    /\ \/ /\ task' = [task EXCEPT ![i] = [@ EXCEPT !.pc = "handler",
                              !.exc = Exc("ServerDisconnectedError", 0)]]
          /\ hist' = [hist EXCEPT ![i] = [@ EXCEPT !.faults = @ + 1]]
       \/ \E pg \in Pages, rest \in Rests :
             IF detect_spa_bytes(pg, HtmlHeaders)
             THEN /\ task' = [task EXCEPT ![i] = [@ EXCEPT !.pc = "render"]]
                  /\ UNCHANGED hist
             ELSE /\ task' = [task EXCEPT ![i] = [@ EXCEPT !.pc = "stream",
                                      !.temp = "exists", !.rest = rest]]
                  /\ hist' = [hist EXCEPT ![i] = [@ EXCEPT !.temps = @ + 1]]
    /\ UNCHANGED <<gov, message_task_semaphore, now, aux, store, loop>>

\* Streaming the rest of a static body into the scratch file.
stream(i) ==
    /\ T(i).pc = "stream"
    /\ \E fail \in BOOLEAN :
          IF fail
          THEN /\ task' = [task EXCEPT ![i] = [@ EXCEPT !.pc = "handler",
                                   !.exc = Exc("ServerDisconnectedError", 0)]]
               /\ hist' = [hist EXCEPT ![i] = [@ EXCEPT !.faults = @ + 1]]
          ELSE IF StreamBody(PrefTotal, T(i).rest) = "too_large"
          THEN /\ task' = [task EXCEPT ![i] = [@ EXCEPT !.pc = "handler",
                                   !.temp = "removed",
                                   !.exc = Exc("ValueError", 0)]]
               /\ hist' = [hist EXCEPT ![i] = [@ EXCEPT !.too_large = TRUE]]
          ELSE /\ \E h \in Hashes :
                    task' = [task EXCEPT ![i] = [@ EXCEPT !.pc = "finally",
                                   !.hashed = TRUE, !.sha = h]]
               /\ UNCHANGED hist
    /\ UNCHANGED <<gov, message_task_semaphore, now, aux, store, loop>>

\* await render_page_and_upload(...), up to the rendered DOM: the robots
\* check, then the browser.
render(i) ==
    /\ T(i).pc = "render"
    /\ \E robots \in RobotsFiles, out \in {"error"} \cup Hashes :
          IF ~can_fetch_via_robots(robots)
          THEN /\ task' = [task EXCEPT ![i] = [@ EXCEPT !.pc = "render_dlq",
                                   !.exc = Exc("PermissionError", 0)]]
               /\ hist' = [hist EXCEPT ![i] = [@ EXCEPT !.faults = @ + 1]]
          ELSE IF out = "error"
          THEN /\ task' = [task EXCEPT ![i] = [@ EXCEPT !.pc = "render_dlq",
                                   !.exc = Exc("PlaywrightError", 0)]]
               /\ hist' = [hist EXCEPT ![i] = [@ EXCEPT !.renders = @ + 1,
                                                         !.faults = @ + 1]]
          ELSE /\ task' = [task EXCEPT ![i] = [@ EXCEPT !.pc = "render_head",
                                   !.sha = out]]
               /\ hist' = [hist EXCEPT ![i] = [@ EXCEPT !.renders = @ + 1]]
    /\ UNCHANGED <<gov, message_task_semaphore, now, aux, store, loop>>

\* A dedupe check that takes equal hashes for changed content.
head_object_metadata_inverted(i) ==
    LET key == rendered_key(today, T(i).dom) IN
    /\ T(i).pc = "render_head"
    /\ \E readable \in BOOLEAN :
          LET old == old_sha(IF readable THEN r2[key] ELSE NoObject) IN
          /\ task' = [task EXCEPT ![i] =
                 IF old # T(i).sha
                 THEN [@ EXCEPT !.pc = "db_attempt", !.old_sha = old,
                                !.branch = "render", !.dattempt = 0]
                 ELSE [@ EXCEPT !.pc = "render_put", !.old_sha = old]]
          /\ hist' = [hist EXCEPT ![i] = [@ EXCEPT !.lookups = @ + 1]]
    /\ UNCHANGED <<gov, message_task_semaphore, now, aux, store, loop>>

\* render_page_and_upload, from the hash of the rendered DOM: head_object
\* on the target key; equal hashes skip the upload and the call returns.
head_object_metadata(i) ==
    LET key == rendered_key(today, T(i).dom) IN
    /\ T(i).pc = "render_head"
    /\ \E readable \in BOOLEAN :
          LET old == old_sha(IF readable THEN r2[key] ELSE NoObject) IN
          /\ task' = [task EXCEPT ![i] =
                 IF old = T(i).sha
                 THEN [@ EXCEPT !.pc = "db_attempt", !.old_sha = old,
                                !.branch = "render", !.dattempt = 0]
                 ELSE [@ EXCEPT !.pc = "render_put", !.old_sha = old]]
          /\ hist' = [hist EXCEPT ![i] = [@ EXCEPT !.lookups = @ + 1]]
    /\ UNCHANGED <<gov, message_task_semaphore, now, aux, store, loop>>

\* await _upload_bytes_to_r2(r2_key_html, gz_html, ..., {"sha256": hash})
upload_bytes_to_r2(i) ==
    LET key == rendered_key(today, T(i).dom) IN
    /\ T(i).pc = "render_put"
    /\ \E ok \in BOOLEAN :
          IF ok
          THEN /\ task' = [task EXCEPT ![i] = [@ EXCEPT !.pc = "db_attempt",
                                   !.branch = "render", !.dattempt = 0]]
               /\ hist' = [hist EXCEPT ![i] = [@ EXCEPT !.uploads = @ + 1,
                                                         !.stored = @ + 1]]
               /\ r2' = [r2 EXCEPT ![key] = T(i).sha]
          ELSE /\ task' = [task EXCEPT ![i] = [@ EXCEPT !.pc = "render_dlq",
                                   !.exc = Exc("UploadError", 0)]]
               /\ hist' = [hist EXCEPT ![i] = [@ EXCEPT !.uploads = @ + 1,
                                                         !.faults = @ + 1]]
               /\ UNCHANGED r2
    /\ UNCHANGED <<gov, message_task_semaphore, now, aux, metadata, today, loop>>

\* The dead-letter send of the render failure: a return on success; its
\* own failure is raised inside the attempt's try.
render_dlq(i) ==
    /\ T(i).pc = "render_dlq"
    /\ \E ok \in BOOLEAN :
          /\ hist' = [hist EXCEPT ![i] =
                         Sent(i, ok, "dlq", "playwright_render_failed")]
          /\ task' = [task EXCEPT ![i] = [@ EXCEPT
                         !.pc = IF ok THEN "finally" ELSE "handler",
                         !.exc = IF ok THEN @ ELSE KafkaError]]
    /\ UNCHANGED <<gov, message_task_semaphore, now, aux, store, loop>>

\* One attempt of db_upsert_with_retries: upsert_metadata returns the id,
\* returns None (no pool, or the statement failed), or raises.
db_attempt(i) ==
    /\ T(i).pc = "db_attempt"
    /\ \E out \in {"id", "none", "raise"} :
          LET rows == IF out = "id"
                      THEN IF T(i).branch = "render"
                           THEN upsert_metadata(metadata, T(i).dom, NoKey,
                                    rendered_key(today, T(i).dom), T(i).sha)
                           ELSE upsert_metadata(metadata, T(i).dom,
                                    s3_key_for_raw(today, T(i).dom), NoKey,
                                    T(i).sha)
                      ELSE metadata
          IN
          /\ metadata' = rows
          /\ task' = [task EXCEPT ![i] = [@ EXCEPT
                 !.pc = IF out # "raise" THEN "emit"
                        ELSE IF T(i).dattempt + 1 >= db_retries THEN "upsert_dlq"
                        ELSE "db_sleep",
                 !.doc_id = IF out = "id" THEN RowId(rows, T(i).dom) ELSE None,
                 !.exc = IF out = "raise" THEN Exc("PostgresError", 0) ELSE @]]
          /\ hist' = [hist EXCEPT ![i] = [@ EXCEPT
                 !.upserts = @ + 1,
                 !.writes = IF out = "id" THEN @ + 1 ELSE @,
                 !.rewrites = IF out = "id"
                                 /\ Unchanged(metadata, T(i).dom, T(i).sha)
                              THEN @ + 1 ELSE @,
                 !.faults = IF out = "id" THEN @ ELSE @ + 1]]
    /\ UNCHANGED <<gov, message_task_semaphore, now, aux, r2, today, loop>>

db_sleep(i) ==
    /\ T(i).pc = "db_sleep"
    /\ task' = [task EXCEPT ![i] = [@ EXCEPT !.pc = "db_attempt",
                                     !.dattempt = @ + 1]]
    /\ hist' = [hist EXCEPT ![i] = [@ EXCEPT !.sleeps = @ + 1,
                                              !.dsleeps = @ + 1]]
    /\ UNCHANGED <<gov, message_task_semaphore, now, aux, store, loop>>

\* The dead-letter send after a failed upsert.  In the render branch it is
\* inside the attempt's try, in the static section it is not.
upsert_dlq(i) ==
    /\ T(i).pc = "upsert_dlq"
    /\ \E ok \in BOOLEAN :
          /\ hist' = [hist EXCEPT ![i] =
                         Sent(i, ok, "dlq", "db_upsert_after_upload_failed")]
          /\ task' = [task EXCEPT ![i] = [@ EXCEPT
                 !.pc = IF ok THEN "finally"
                        ELSE IF T(i).branch = "render" THEN "handler"
                        ELSE "finally",
                 !.raising = IF ~ok /\ T(i).branch # "render" THEN "exc" ELSE @,
                 !.exc = IF ok THEN @ ELSE KafkaError]]
    /\ UNCHANGED <<gov, message_task_semaphore, now, aux, store, loop>>

\* The completion event of a render branch that has lost its return: the
\* attempt goes on into the static code below it.
emit_without_return(i) ==
    /\ T(i).pc = "emit"
    /\ \E ok \in BOOLEAN :
          /\ hist' = [hist EXCEPT ![i] = Sent(i, ok, "out", "fetched")]
          /\ task' = [task EXCEPT ![i] =
                 IF ~ok
                 THEN [@ EXCEPT !.pc = "handler", !.exc = KafkaError]
                 ELSE [@ EXCEPT !.pc = "stream", !.temp = "exists",
                                !.rest = 0]]
    /\ UNCHANGED <<gov, message_task_semaphore, now, aux, store, loop>>

\* The completion event.  The render branch returns after it; the static
\* section has no return, so the attempt loop goes on.
emit(i) ==
    /\ T(i).pc = "emit"
    /\ \E ok \in BOOLEAN :
          /\ hist' = [hist EXCEPT ![i] = Sent(i, ok, "out", "fetched")]
          /\ task' = [task EXCEPT ![i] =
                 IF T(i).branch = "render"
                 THEN [@ EXCEPT !.pc = IF ok THEN "finally" ELSE "handler",
                                !.exc = IF ok THEN T(i).exc ELSE KafkaError]
                 ELSE IF ~ok
                 THEN [@ EXCEPT !.pc = "finally", !.raising = "exc",
                                !.exc = KafkaError]
                 ELSE IF T(i).attempt + 1 < fetch_retries
                 THEN [@ EXCEPT !.pc = "get", !.attempt = @ + 1]
                 ELSE [@ EXCEPT !.pc = "finally"]]
    /\ UNCHANGED <<gov, message_task_semaphore, now, aux, store, loop>>

\* except Exception as e: classify, release the response, choose the exit.
except_handler(i) ==
    /\ T(i).pc = "handler"
    /\ task' = [task EXCEPT ![i] = [@ EXCEPT
           !.branch = "static",
           !.pc = IF ~is_transient_fetch_exception(T(i).exc) THEN "fetch_dlq"
                  ELSE IF T(i).attempt + 1 >= fetch_retries THEN "fetch_dlq"
                  ELSE "backoff"]]
    /\ hist' = [hist EXCEPT ![i] = [@ EXCEPT
           !.transients = IF is_transient_fetch_exception(T(i).exc)
                          THEN @ + 1 ELSE @]]
    /\ UNCHANGED <<gov, message_task_semaphore, now, aux, store, loop>>

\* The dead-letter send of the except clause, the scratch cleanup, return.
fetch_dlq(i) ==
    /\ T(i).pc = "fetch_dlq"
    /\ \E ok \in BOOLEAN :
          /\ hist' = [hist EXCEPT ![i] =
                 Sent(i, ok, "dlq",
                      IF is_transient_fetch_exception(T(i).exc)
                      THEN "fetch_error" ELSE "fetch_permanent")]
          /\ task' = [task EXCEPT ![i] = [@ EXCEPT
                 !.pc = "finally",
                 !.temp = IF ok /\ @ = "exists" THEN "removed" ELSE @,
                 !.raising = IF ok THEN @ ELSE "exc",
                 !.exc = IF ok THEN @ ELSE KafkaError]]
    /\ UNCHANGED <<gov, message_task_semaphore, now, aux, store, loop>>

\* await asyncio.sleep(backoff_delay(attempt)); the try statement is over
\* and the loop body goes on with the upload section.
backoff(i) ==
    /\ T(i).pc = "backoff"
    /\ task' = [task EXCEPT ![i] = [@ EXCEPT !.pc = "upload", !.uattempt = 0]]
    /\ hist' = [hist EXCEPT ![i] = [@ EXCEPT !.sleeps = @ + 1]]
    /\ UNCHANGED <<gov, message_task_semaphore, now, aux, store, loop>>

\* await r2_upload_file(temp_name, r2_key): it opens temp_name, so it can
\* succeed only if the scratch file is there.  After the upload loop the
\* upsert's arguments are evaluated: content_hash is unbound unless the
\* stream was finalised, and the NameError is caught as an upsert failure.
upload(i) ==
    /\ T(i).pc = "upload"
    /\ \E ok \in BOOLEAN :
          /\ ok => T(i).temp = "exists"
          /\ task' = [task EXCEPT ![i] = [@ EXCEPT
                 !.pc = IF ok
                        THEN (IF T(i).hashed THEN "db_attempt" ELSE "upsert_dlq")
                        ELSE IF T(i).uattempt + 1 >= upload_retries
                        THEN "upload_dlq"
                        ELSE "upload_sleep",
                 !.dattempt = 0,
                 !.exc = IF ok
                         THEN (IF T(i).hashed THEN T(i).exc
                               ELSE Exc("UnboundLocalError", 0))
                         ELSE Exc("UploadError", 0)]]
          /\ hist' = [hist EXCEPT ![i] = [@ EXCEPT
                 !.uploads = @ + 1,
                 !.raws = @ + 1,
                 !.stored = IF ok THEN @ + 1 ELSE @,
                 !.faults = IF ok THEN @ ELSE @ + 1]]
          /\ r2' = IF ok
                   THEN [r2 EXCEPT ![s3_key_for_raw(today, T(i).dom)] = NoSha]
                   ELSE r2
    /\ UNCHANGED <<gov, message_task_semaphore, now, aux, metadata, today, loop>>

\* An upload loop that goes to its next attempt without the sleep.
upload_retry_at_once(i) ==
    /\ T(i).pc = "upload_sleep"
    /\ task' = [task EXCEPT ![i] = [@ EXCEPT !.pc = "upload",
                                     !.uattempt = @ + 1]]
    /\ UNCHANGED <<hist, gov, message_task_semaphore, now, aux, store, loop>>

\* await asyncio.sleep(backoff_delay(attempt)) of the upload loop.
upload_sleep(i) ==
    /\ T(i).pc = "upload_sleep"
    /\ task' = [task EXCEPT ![i] = [@ EXCEPT !.pc = "upload",
                                     !.uattempt = @ + 1]]
    /\ hist' = [hist EXCEPT ![i] = [@ EXCEPT !.sleeps = @ + 1,
                                              !.usleeps = @ + 1]]
    /\ UNCHANGED <<gov, message_task_semaphore, now, aux, store, loop>>

upload_dlq(i) ==
    /\ T(i).pc = "upload_dlq"
    /\ \E ok \in BOOLEAN :
          /\ hist' = [hist EXCEPT ![i] = Sent(i, ok, "dlq", "r2_upload_error")]
          /\ task' = [task EXCEPT ![i] = [@ EXCEPT
                 !.pc = "finally",
                 !.temp = IF ok /\ @ = "exists" THEN "removed" ELSE @,
                 !.raising = IF ok THEN @ ELSE "exc",
                 !.exc = IF ok THEN @ ELSE KafkaError]]
    /\ UNCHANGED <<gov, message_task_semaphore, now, aux, store, loop>>

\* A release placed after the try statement instead of in its finally
\* clause: it runs on a return only.
release_after_try(i) ==
    /\ T(i).pc = "finally"
    /\ IF T(i).raising = "none"
       THEN /\ release_domain_slot(T(i).dom)
            /\ hist' = [hist EXCEPT ![i] = [@ EXCEPT !.releases = @ + 1,
                                                      !.held = 0]]
       ELSE UNCHANGED <<gov, hist>>
    /\ LET t == [T(i) EXCEPT !.temp = IF @ = "exists" THEN "removed" ELSE @]
       IN  task' = [task EXCEPT ![i] =
                       IF t.raising = "exc"
                       THEN Raised(t)
                       ELSE Returned(t)]
    /\ message_task_semaphore' =
           IF T(i).raising = "exc" THEN message_task_semaphore
           ELSE message_task_semaphore + 1
    /\ UNCHANGED <<now, aux, store, loop>>

\* A finally clause that releases the slot and leaves the scratch file.
finally_keeps_temp(i) ==
    /\ T(i).pc = "finally"
    /\ release_domain_slot(T(i).dom)
    /\ task' = [task EXCEPT ![i] =
                   IF T(i).raising = "exc"
                   THEN Raised(T(i))
                   ELSE Returned(T(i))]
    /\ hist' = [hist EXCEPT ![i] = [@ EXCEPT !.releases = @ + 1,
                                              !.held = 0]]
    /\ message_task_semaphore' =
           IF T(i).raising = "exc" THEN message_task_semaphore
           ELSE message_task_semaphore + 1
    /\ UNCHANGED <<now, aux, store, loop>>

\* finally: remove the scratch file, release_domain_slot; then the return,
\* or the exception on its way to handle_record, or the cancellation.
finally(i) ==
    /\ T(i).pc = "finally"
    /\ release_domain_slot(T(i).dom)
    /\ LET t == [T(i) EXCEPT !.temp = IF @ = "exists" THEN "removed" ELSE @]
       IN  task' = [task EXCEPT ![i] =
                       IF t.raising = "exc"
                       THEN Raised(t)
                       ELSE Returned(t)]
    /\ hist' = [hist EXCEPT ![i] = [@ EXCEPT !.releases = @ + 1,
                                              !.held = 0]]
    /\ message_task_semaphore' =
           IF T(i).raising = "exc" THEN message_task_semaphore
           ELSE message_task_semaphore + 1
    /\ UNCHANGED <<now, aux, store, loop>>

\* ------------------------------------------------- handle_record

\* Parse the record; a record that does not parse is to be dead-lettered,
\* but json.sumps raises AttributeError, which the inner except swallows.
handle_record(i) ==
    /\ T(i).pc = "start"
    /\ T(i).kind = "ok" => message_task_semaphore > 0
    /\ message_task_semaphore' =
           IF T(i).kind = "ok" THEN message_task_semaphore - 1
           ELSE message_task_semaphore
    /\ task' = [task EXCEPT ![i] =
           IF T(i).kind = "ok" THEN [@ EXCEPT !.pc = "acq_dom"]
           ELSE Returned(@)]
    /\ UNCHANGED <<hist, gov, now, aux, store, loop>>

\* except Exception around fetch_and_store: the processing_error event.
hr_except(i) ==
    /\ T(i).pc = "hr_except"
    /\ \E ok \in BOOLEAN :
          hist' = [hist EXCEPT ![i] = Sent(i, ok, "dlq", "processing_error")]
    /\ task' = [task EXCEPT ![i] = Returned(@)]
    /\ message_task_semaphore' = message_task_semaphore + 1
    /\ UNCHANGED <<gov, now, aux, store, loop>>

\* CancelledError delivered to the coroutine of record i at the await it is
\* suspended in.  It is no Exception: no except clause of the pipeline
\* catches it, the finally of fetch_and_store runs if its try was entered.
Suspended(i) ==
    CASE T(i).pc = "acq_dom" -> domain_locks[T(i).dom] = 0
      [] T(i).pc = "acq_glob" -> global_semaphore = 0
      [] T(i).pc \in {"idle", "start", "finally", "done", "committed"} -> FALSE
      [] OTHER -> TRUE

InTry(i) ==
    T(i).pc \notin {"acq_dom", "acq_glob", "polite", "polite_sleep", "hr_except"}

cancel(i) ==
    /\ Suspended(i)
    /\ task' = [task EXCEPT ![i] =
           IF InTry(i) THEN [@ EXCEPT !.pc = "finally", !.raising = "cancel"]
           ELSE Returned(@)]
    /\ hist' = [hist EXCEPT ![i] = [@ EXCEPT !.cancelled = TRUE]]
    /\ message_task_semaphore' =
           IF InTry(i) THEN message_task_semaphore
           ELSE message_task_semaphore + 1
    /\ UNCHANGED <<gov, now, aux, store>>

\* ------------------------------------------------- main._consumer_loop

\* A record is a well-formed event with a link into some domain, or one
\* that does not parse.
Records == ({"ok"} \X Domains) \cup {<<"malformed", 1>>}

\* The serial loop has one record in flight, so its records need one
\* registered domain, fetched again and again, and the unseen one.
SerialRecords == {r \in Records : r[2] = 1 \/ r[2] = FreshDomain}

\* The last record of the batch consumer.getmany returns when record i is
\* the next one of the partition: record i alone, or all records up to
\* the last one the run has (max_records = 50 is more than NumTasks).
Batches(i) == {i, NumTasks}

\* for record in records: await handlers.handle_record(record, session);
\* when the previous batch is used up, getmany returns the next one and
\* the consumer's position moves behind its last record.
Dispatch(i) ==
    /\ loop.pc = "poll"
    /\ loop.next = i
    /\ T(i).pc = "idle"
    /\ \E r \in SerialRecords :
          task' = [task EXCEPT ![i] = [@ EXCEPT !.pc = "start", !.kind = r[1],
                                                 !.dom = r[2]]]
    /\ \E last \in Batches(i) :
          loop' = [loop EXCEPT !.pc = "handling",
                               !.fetched = IF i > @ THEN last ELSE @]
    /\ UNCHANGED <<hist, gov, message_task_semaphore, now, aux, store>>

\* await consumer.commit(), once handle_record has returned: without
\* arguments it commits the consumer's position, which is behind the last
\* record getmany has returned; a commit that raises is logged.
Commit(i) ==
    /\ loop.pc = "handling"
    /\ loop.next = i
    /\ T(i).pc = "done"
    /\ ~H(i).cancelled
    /\ \E ok \in BOOLEAN :
          loop' = [loop EXCEPT !.pc = "poll", !.next = i + 1,
                               !.committed = IF ok THEN loop.fetched ELSE @]
    /\ task' = [task EXCEPT ![i] = [IdleTask EXCEPT !.pc = "committed"]]
    /\ hist' = [hist EXCEPT ![i] = NoHist]
    /\ UNCHANGED <<gov, message_task_semaphore, now, aux, store>>

\* main: consumer_task.cancel() on a shutdown signal.
Shutdown(i) ==
    /\ loop.pc = "handling"
    /\ loop.next = i
    /\ cancel(i)
    /\ loop' = [loop EXCEPT !.pc = "cancelled"]

Pipeline(i) ==
    \/ handle_record(i) \/ acquire_sem(i) \/ acquire_global(i)
    \/ polite_wait(i) \/ session_get(i) \/ prefetch(i) \/ stream(i)
    \/ render(i) \/ head_object_metadata(i) \/ upload_bytes_to_r2(i)
    \/ render_dlq(i) \/ db_attempt(i) \/ db_sleep(i)
    \/ upsert_dlq(i) \/ emit(i) \/ except_handler(i) \/ fetch_dlq(i)
    \/ backoff(i) \/ upload(i) \/ upload_sleep(i) \/ upload_dlq(i)
    \/ finally(i) \/ hr_except(i)

\* The UTC date changes (datetime.now(timezone.utc) in the key builders),
\* here between two records.
Midnight ==
    /\ loop.pc = "poll"
    /\ today + 1 \in Days
    /\ today' = today + 1
    /\ UNCHANGED <<task, hist, gov, message_task_semaphore, now, aux, loop, r2,
                   metadata>>

Next ==
    \/ \E i \in Tasks : Dispatch(i) \/ Commit(i) \/ Shutdown(i) \/ Pipeline(i)
    \/ Midnight

Spec == Init /\ [][Next]_vars

\* Records handled concurrently (one task per record, as the consumer loop's
\* comment proposes): the callers of fetch_and_store the governor is for.
Spawn(i) ==
    /\ T(i).pc = "idle"
    /\ \A j \in Tasks : j < i => T(j).pc # "idle"
    /\ \E r \in Records :
          task' = [task EXCEPT ![i] = [@ EXCEPT !.pc = "start", !.kind = r[1],
                                                 !.dom = r[2]]]
    /\ UNCHANGED <<hist, gov, message_task_semaphore, now, aux, store, loop>>

CancelTask(i) ==
    /\ cancel(i)
    /\ UNCHANGED loop

\* The try block of fetch_and_store (fetcher.py:264-587) as the governor
\* sees it: it reads and writes no governor state and ends in the finally
\* clause, by a return or by an exception.
try_block(i) ==
    /\ T(i).pc = "get"
    /\ \E r \in {"none", "exc"} :
          task' = [task EXCEPT ![i] = [@ EXCEPT !.pc = "finally",
                                                 !.raising = r]]
    /\ UNCHANGED <<hist, gov, message_task_semaphore, now, aux, store, loop>>

NextBurst ==
    \E i \in Tasks :
        \/ Spawn(i) \/ CancelTask(i) \/ handle_record(i) \/ acquire_sem(i)
        \/ acquire_global(i) \/ polite_wait(i) \/ try_block(i)
        \/ finally(i) \/ hr_except(i)

SpecBurst == Init /\ [][NextBurst]_vars

\* ------------------------------------------------- the governor, scheduled fairly

\* A caller of fetch_and_store that can come to wait: a well-formed
\* record of any domain that has its semaphore, started as a task of its
\* own (for a domain without one the call raises at once, acquire_sem).
SpawnCaller(i) ==
    /\ T(i).pc = "idle"
    /\ \A j \in Tasks : j < i => T(j).pc # "idle"
    /\ \E d \in Registered :
          task' = [task EXCEPT ![i] = [@ EXCEPT !.pc = "start", !.kind = "ok",
                                                 !.dom = d]]
    /\ UNCHANGED <<hist, gov, message_task_semaphore, now, aux, store, loop>>

\* How the try block of record i ends: the fetch of the first record may
\* raise, the others return; the finally clause runs after both.
Outcomes(i) == IF i = 1 THEN {"none", "exc"} ELSE {"none"}

\* The try block of fetch_and_store (fetcher.py:264-587) as the governor
\* sees it, with these outcomes.
try_ends(i) ==
    /\ T(i).pc = "get"
    /\ \E r \in Outcomes(i) :
          task' = [task EXCEPT ![i] = [@ EXCEPT !.pc = "finally",
                                                 !.raising = r]]
    /\ UNCHANGED <<hist, gov, message_task_semaphore, now, aux, store, loop>>

\* The event loop resumes the coroutine of record i at the await it is
\* in: the awaits of acquire_domain_slot, the try block, the finally
\* clause with release_domain_slot.
Resume(i) ==
    \/ handle_record(i) \/ acquire_sem(i) \/ acquire_global(i)
    \/ polite_wait(i) \/ try_ends(i) \/ finally(i) \/ hr_except(i)

NextFair == \E i \in Tasks : SpawnCaller(i) \/ Resume(i)

\* No task is cancelled, and a coroutine that can go on is resumed: a
\* sleep ends, a GET returns or raises, a semaphore with a free permit
\* wakes a waiter.
SpecFair == Init /\ [][NextFair]_vars /\ \A i \in Tasks : WF_vars(Resume(i))

\* ------------------------------------------------- the governor's clock

\* The instants of the event loop's clock that SpecClock goes through; the
\* clock is past per_domain_delay_s when the service starts.
Times == per_domain_delay_s..(per_domain_delay_s + 3)

\* settings.per_domain_concurrency, a setting: SpecClock starts with one
\* of these capacities for the registered semaphores, a single slot or
\* the default of config.py.
Capacities == {1, 2}

InitClock ==
    /\ task = [i \in Tasks |-> IdleTask]
    /\ hist = [i \in Tasks |-> NoHist]
    /\ \E c \in Capacities :
          domain_locks = [d \in Domains |->
                             IF d \in Registered THEN c ELSE NoSem]
    /\ global_semaphore = Concurrency
    /\ domain_last_req = [d \in Domains |-> 0]
    /\ message_task_semaphore = Concurrency * 2
    /\ now = per_domain_delay_s
    /\ loop = [pc |-> "poll", next |-> 1, fetched |-> 0, committed |-> 0]
    /\ r2 = [k \in Keys |-> NoObject]
    /\ metadata = {}
    /\ today = 1
    /\ calc = NoCalc
    /\ default_semaphore = RenderLimit

\* Time passes.
Tick ==
    /\ now + 1 \in Times
    /\ now' = now + 1
    /\ UNCHANGED <<task, hist, gov, message_task_semaphore, store, loop, aux>>

\* A record for the first registered domain; the records arrive in the
\* order of their numbers.
SpawnClock(i) ==
    /\ T(i).pc = "idle"
    /\ \A j \in Tasks : j < i => T(j).pc # "idle"
    /\ task' = [task EXCEPT ![i] = [@ EXCEPT !.pc = "start", !.kind = "ok",
                                             !.dom = 1]]
    /\ UNCHANGED <<hist, gov, message_task_semaphore, now, aux, store, loop>>

\* acquire_domain_slot returns to fetch_and_store at this instant.
Admit(h, d) ==
    [h EXCEPT !.admitted = TRUE, !.spacing = now - domain_last_req[d]]

\* A polite_wait that stamps domain_last_req when the slot is acquired.
polite_wait_stamps(i) ==
    LET d == T(i).dom
        wait == per_domain_delay_s - (now - domain_last_req[d])
    IN
    /\ T(i).pc = "polite"
    /\ IF wait > 0
       THEN /\ task' = [task EXCEPT ![i] = [@ EXCEPT !.pc = "polite_sleep",
                                                !.wake = now + wait]]
            /\ UNCHANGED hist
       ELSE /\ task' = [task EXCEPT ![i] = [@ EXCEPT !.pc = "get",
                                   !.attempt = 0, !.temp = "none"]]
            /\ hist' = [hist EXCEPT ![i] = Admit(@, d)]
    /\ domain_last_req' = [domain_last_req EXCEPT ![d] = now]
    /\ UNCHANGED <<domain_locks, global_semaphore, message_task_semaphore,
                   now, aux, store, loop>>

\* polite_wait up to its await: wait = per_domain_delay_s - (now - last);
\* with wait <= 0 it returns, and so does acquire_domain_slot.
polite_wait_timed(i) ==
    LET d == T(i).dom
        wait == per_domain_delay_s - (now - domain_last_req[d])
    IN
    /\ T(i).pc = "polite"
    /\ IF wait > 0
       THEN /\ task' = [task EXCEPT ![i] = [@ EXCEPT !.pc = "polite_sleep",
                                                !.wake = now + wait]]
            /\ UNCHANGED hist
       ELSE /\ task' = [task EXCEPT ![i] = [@ EXCEPT !.pc = "get",
                                   !.attempt = 0, !.temp = "none"]]
            /\ hist' = [hist EXCEPT ![i] = Admit(@, d)]
    /\ UNCHANGED <<gov, message_task_semaphore, now, aux, store, loop>>

\* await asyncio.sleep(wait) is over once wait has passed; polite_wait and
\* acquire_domain_slot return.
polite_sleep(i) ==
    /\ T(i).pc = "polite_sleep"
    /\ now >= T(i).wake
    /\ task' = [task EXCEPT ![i] = [@ EXCEPT !.pc = "get", !.attempt = 0,
                                             !.temp = "none", !.wake = 0]]
    /\ hist' = [hist EXCEPT ![i] = Admit(@, T(i).dom)]
    /\ UNCHANGED <<gov, message_task_semaphore, now, aux, store, loop>>

NextClock ==
    \/ Tick
    \/ \E i \in Tasks :
          \/ SpawnClock(i) \/ handle_record(i) \/ acquire_sem(i)
          \/ acquire_global(i) \/ polite_wait_timed(i) \/ polite_sleep(i)
          \/ try_block(i) \/ finally(i) \/ hr_except(i)

SpecClock == InitClock /\ [][NextClock]_vars

\* ------------------------------------------------- calls of pure functions

\* The prefetched bytes detect_spa_bytes is called with: with or without
\* each marker, with 0, 1 or 3 script tags, 1500, 5000 or 9000 bytes long.
Prefixes ==
    [root : BOOLEAN, react : BOOLEAN, scripts : {0, 1, 3},
     len : {1500, 5000, 9000}]

\* dict(resp.headers): the Content-Type header under the name the server
\* sent it with, or no such header.
HeaderDicts ==
    [key : {"Content-Type", "content-type"},
     value : {"text/html; charset=utf-8", "application/json"}]
        \cup {[key |-> "none", value |-> ""]}

\* backoff_delay is called by the retry loops with attempt = 0, 1, ... and
\* the defaults base = 1.0, cap = 30.0 (settings has neither field); the
\* model also takes other pairs with 0 < base <= cap.
Attempts == 0..6
Backoffs == {<<1, 30>>, <<2, 30>>, <<1, 4>>, <<4, 4>>}

Verdict(b) == IF b THEN "rendered" ELSE "static"

\* The first call of detect_spa_bytes, on any prefix and headers.
Classify ==
    /\ calc.verdict = "none"
    /\ \E pg \in Prefixes, hd \in HeaderDicts :
          calc' = [calc EXCEPT !.pg = pg, !.hd = hd, !.calls = 1,
                               !.verdict = Verdict(detect_spa_bytes(pg, hd))]
    /\ UNCHANGED <<task, hist, gov, message_task_semaphore, now, store, loop,
                   default_semaphore>>

\* A later call: on the pages of the pipeline, or on the prefix and
\* headers of the first call once more.
ClassifyAgain ==
    /\ calc.verdict # "none"
    /\ \/ \E pg \in Pages :
             calc' = [calc EXCEPT !.calls = (@ + 1) % 4,
                 !.again = IF pg = calc.pg /\ HtmlHeaders = calc.hd
                           THEN Verdict(detect_spa_bytes(pg, HtmlHeaders))
                           ELSE @]
       \/ calc' = [calc EXCEPT !.calls = (@ + 1) % 4,
                 !.again = Verdict(detect_spa_bytes(calc.pg, calc.hd))]
    /\ UNCHANGED <<task, hist, gov, message_task_semaphore, now, store, loop,
                   default_semaphore>>

\* The backoff of a retry loop: attempt 0 with some base and cap, then
\* the next attempts.
Backoff ==
    /\ \/ /\ calc.attempt = -1
          /\ \E bc \in Backoffs :
                calc' = [calc EXCEPT !.attempt = 0, !.base = bc[1],
                             !.cap = bc[2], !.prev = 0,
                             !.delay = backoff_delay(0, bc[1], bc[2])]
       \/ /\ calc.attempt >= 0
          /\ calc.attempt + 1 \in Attempts
          /\ calc' = [calc EXCEPT !.attempt = @ + 1, !.prev = calc.delay,
                 !.delay = backoff_delay(calc.attempt + 1, calc.base, calc.cap)]
    /\ UNCHANGED <<task, hist, gov, message_task_semaphore, now, store, loop,
                   default_semaphore>>

NextPure == Classify \/ ClassifyAgain \/ Backoff

SpecPure == Init /\ [][NextPure]_vars

\* ------------------------------------------------- a caller releasing twice

\* release_domain_slot(domain) called for an acquisition by a caller that
\* goes on to the finally clause of fetch_and_store, which releases the
\* same acquisition once more.  No path of the service does this; the
\* governor is a module-level interface and SpecRelease has such a caller.
release_call(i) ==
    /\ T(i).pc = "finally"
    /\ H(i).releases = 0
    /\ release_domain_slot(T(i).dom)
    /\ hist' = [hist EXCEPT ![i] = [@ EXCEPT !.releases = @ + 1,
                                              !.held = 0]]
    /\ UNCHANGED <<task, message_task_semaphore, now, aux, store, loop>>

NextRelease ==
    \E i \in Tasks :
        \/ Spawn(i) \/ handle_record(i) \/ acquire_sem(i)
        \/ acquire_global(i) \/ polite_wait(i) \/ try_block(i)
        \/ release_call(i) \/ finally(i) \/ hr_except(i)

SpecRelease == Init /\ [][NextRelease]_vars

\* ------------------------------------------------- render_page_and_upload

\* The callers of render_page_and_upload, step by step: SpecRender has
\* several of them at once, each from the call to its return or raise
\* (pc "db_attempt" and "render_dlq" of fetch_and_store).

\* wait_until of the three page.goto calls, in the order of the code.
ReadyConditions == <<"networkidle", "load", "domcontentloaded">>

\* The records whose pages SpecRender renders.
Renders == 1..MaxRenders

\* A render of the first registered domain's URL; the calls are numbered
\* in the order they are made.
SpawnRender(i) ==
    /\ T(i).pc = "idle"
    /\ \A j \in Tasks : j < i => T(j).pc # "idle"
    /\ task' = [task EXCEPT ![i] = [@ EXCEPT !.pc = "render", !.kind = "ok",
                                             !.dom = 1, !.branch = "render"]]
    /\ UNCHANGED <<hist, gov, message_task_semaphore, now, aux, store, loop>>

\* allowed = await can_fetch_via_robots(url); PermissionError if not.
robots_check(i) ==
    /\ T(i).pc = "render"
    /\ \E robots \in RobotsFiles :
          IF ~can_fetch_via_robots(robots)
          THEN /\ task' = [task EXCEPT ![i] = [@ EXCEPT !.pc = "render_dlq",
                                   !.exc = Exc("PermissionError", 0)]]
               /\ hist' = [hist EXCEPT ![i] = [@ EXCEPT !.faults = @ + 1]]
          ELSE /\ task' = [task EXCEPT ![i] = [@ EXCEPT !.pc = "r_acquire"]]
               /\ UNCHANGED hist
    /\ UNCHANGED <<gov, message_task_semaphore, now, aux, store, loop>>

\* if sem: await sem.acquire(); then html = "", png = None and the try.
sem_acquire(i) ==
    /\ T(i).pc = "r_acquire"
    /\ default_semaphore # NoSem => default_semaphore > 0
    /\ task' = [task EXCEPT ![i] = [@ EXCEPT !.pc = "r_launch"]]
    /\ IF default_semaphore = NoSem
       THEN UNCHANGED <<default_semaphore, hist>>
       ELSE /\ default_semaphore' = default_semaphore - 1
            /\ hist' = [hist EXCEPT ![i] = [@ EXCEPT !.permit = 1,
                                                     !.racquires = @ + 1]]
    /\ UNCHANGED <<gov, message_task_semaphore, now, calc, store, loop>>

\* async with async_playwright() as p: browser = await p.chromium.launch(...)
launch(i) ==
    /\ T(i).pc = "r_launch"
    /\ \E ok \in BOOLEAN :
          /\ task' = [task EXCEPT ![i] = [@ EXCEPT
                 !.pc = IF ok THEN "r_new_page" ELSE "r_exit",
                 !.raising = IF ok THEN @ ELSE "exc"]]
          /\ hist' = [hist EXCEPT ![i] = [@ EXCEPT
                 !.renders = @ + 1,
                 !.browser = IF ok THEN "open" ELSE @]]
    /\ UNCHANGED <<gov, message_task_semaphore, now, aux, store, loop>>

\* page = await browser.new_page(...); add_init_script, whose failure is
\* logged and nothing more.
new_page(i) ==
    /\ T(i).pc = "r_new_page"
    /\ \E ok \in BOOLEAN :
          /\ task' = [task EXCEPT ![i] = [@ EXCEPT
                 !.pc = IF ok THEN "r_goto" ELSE "r_exit",
                 !.cond = IF ok THEN 1 ELSE @,
                 !.raising = IF ok THEN @ ELSE "exc"]]
          /\ hist' = [hist EXCEPT ![i] = [@ EXCEPT
                 !.page = IF ok THEN "open" ELSE @]]
    /\ UNCHANGED <<gov, message_task_semaphore, now, aux, store, loop>>

\* A navigation that falls back on any failure of page.goto.
goto_falls_back_on_error(i) ==
    /\ T(i).pc = "r_goto"
    /\ \E out \in {"ok", "timeout", "error"} :
          /\ task' = [task EXCEPT ![i] =
                 IF out = "ok" THEN [@ EXCEPT !.pc = "r_page"]
                 ELSE IF T(i).cond < Len(ReadyConditions)
                 THEN [@ EXCEPT !.cond = @ + 1]
                 ELSE [@ EXCEPT !.pc = "r_exit", !.raising = "exc"]]
          /\ hist' = [hist EXCEPT ![i] = [@ EXCEPT
                 !.gotos = Append(@, <<ReadyConditions[T(i).cond], out>>)]]
    /\ UNCHANGED <<gov, message_task_semaphore, now, aux, store, loop>>

\* await page.goto(url, wait_until=..., timeout=timeout_ms): the first call
\* and the two nested in the except PlaywrightTimeoutError clauses.
goto(i) ==
    /\ T(i).pc = "r_goto"
    /\ \E out \in {"ok", "timeout", "error"} :
          /\ task' = [task EXCEPT ![i] =
                 IF out = "ok" THEN [@ EXCEPT !.pc = "r_page"]
                 ELSE IF out = "timeout" /\ T(i).cond < Len(ReadyConditions)
                 THEN [@ EXCEPT !.cond = @ + 1]
                 ELSE [@ EXCEPT !.pc = "r_exit", !.raising = "exc"]]
          /\ hist' = [hist EXCEPT ![i] = [@ EXCEPT
                 !.gotos = Append(@, <<ReadyConditions[T(i).cond], out>>)]]
    /\ UNCHANGED <<gov, message_task_semaphore, now, aux, store, loop>>

\* _auto_scroll and _wait_for_zero_sustained, each in a try that logs
\* whatever it raises, and asyncio.sleep(0.15): SpecPage has their steps.
page_work(i) ==
    /\ T(i).pc = "r_page"
    /\ task' = [task EXCEPT ![i] = [@ EXCEPT !.pc = "r_content"]]
    /\ UNCHANGED <<hist, gov, message_task_semaphore, now, aux, store, loop>>

\* html = await page.content()
content(i) ==
    /\ T(i).pc = "r_content"
    /\ \E out \in {"error"} \cup Hashes :
          task' = [task EXCEPT ![i] =
              IF out = "error"
              THEN [@ EXCEPT !.pc = "r_exit", !.raising = "exc"]
              ELSE [@ EXCEPT !.pc = "r_close", !.sha = out]]
    /\ UNCHANGED <<hist, gov, message_task_semaphore, now, aux, store, loop>>

\* await browser.close(), the last statement of the async with block.
browser_close(i) ==
    /\ T(i).pc = "r_close"
    /\ \E ok \in BOOLEAN :
          /\ task' = [task EXCEPT ![i] = [@ EXCEPT !.pc = "r_exit",
                         !.raising = IF ok THEN @ ELSE "exc"]]
          /\ hist' = [hist EXCEPT ![i] = [@ EXCEPT
                 !.browser = IF ok THEN "closed" ELSE @,
                 !.page = IF ok THEN "closed" ELSE @]]
    /\ UNCHANGED <<gov, message_task_semaphore, now, aux, store, loop>>

\* stop(): the driver ends and takes the browsers it launched with it.
Stopped(b) == IF b = "open" THEN "closed" ELSE b

\* The way out of the try statement, for a return, an exception or a
\* cancellation: the exit of async with, then the finally clause.
Leave(i, h) ==
    /\ hist' = [hist EXCEPT ![i] = h]
    /\ task' = [task EXCEPT ![i] =
           IF T(i).raising = "none" THEN [@ EXCEPT !.pc = "render_head"]
           ELSE IF T(i).raising = "exc"
           THEN [@ EXCEPT !.pc = "render_dlq", !.raising = "none",
                          !.exc = Exc("PlaywrightError", 0)]
           ELSE Returned(@)]
    /\ UNCHANGED <<gov, message_task_semaphore, now, calc, store, loop>>

\* An exit whose sem.release() follows browser.close() inside the try.
playwright_exit_release_in_try(i) ==
    /\ T(i).pc = "r_exit"
    /\ LET freed == H(i).permit = 1 /\ T(i).raising = "none" IN
       /\ default_semaphore' = IF freed THEN default_semaphore + 1
                               ELSE default_semaphore
       /\ Leave(i, [H(i) EXCEPT
              !.browser = Stopped(@), !.page = Stopped(@),
              !.permit = IF freed THEN 0 ELSE @,
              !.rreleases = IF freed THEN @ + 1 ELSE @,
              !.faults = IF T(i).raising = "exc" THEN @ + 1 ELSE @])

\* An exit that leaves the driver running.
playwright_exit_without_stop(i) ==
    /\ T(i).pc = "r_exit"
    /\ LET freed == H(i).permit = 1 IN
       /\ default_semaphore' = IF freed THEN default_semaphore + 1
                               ELSE default_semaphore
       /\ Leave(i, [H(i) EXCEPT
              !.permit = 0,
              !.rreleases = IF freed THEN @ + 1 ELSE @,
              !.faults = IF T(i).raising = "exc" THEN @ + 1 ELSE @])

\* __aexit__ of async_playwright() stops the driver; except Exception logs
\* and raises again; finally: if sem: sem.release().
playwright_exit(i) ==
    /\ T(i).pc = "r_exit"
    /\ LET freed == H(i).permit = 1 IN
       /\ default_semaphore' = IF freed THEN default_semaphore + 1
                               ELSE default_semaphore
       /\ Leave(i, [H(i) EXCEPT
              !.browser = Stopped(@), !.page = Stopped(@),
              !.permit = 0,
              !.rreleases = IF freed THEN @ + 1 ELSE @,
              !.faults = IF T(i).raising = "exc" THEN @ + 1 ELSE @])

\* The awaits of render_page_and_upload inside its try statement.
InRenderTry(i) ==
    T(i).pc \in {"r_launch", "r_new_page", "r_goto", "r_page", "r_content",
                 "r_close"}

\* CancelledError delivered to a render at the await it is suspended in:
\* inside the try it leaves by async with's exit and the finally clause,
\* before and after the try it ends the call there.
cancel_render(i) ==
    /\ \/ InRenderTry(i)
       \/ T(i).pc \in {"render", "render_head", "render_put"}
       \/ T(i).pc = "r_acquire" /\ default_semaphore = 0
    /\ task' = [task EXCEPT ![i] =
           IF InRenderTry(i) THEN [@ EXCEPT !.pc = "r_exit",
                                            !.raising = "cancel"]
           ELSE Returned(@)]
    /\ hist' = [hist EXCEPT ![i] = [@ EXCEPT !.cancelled = TRUE]]
    /\ UNCHANGED <<gov, message_task_semaphore, now, aux, store, loop>>

NextRender ==
    \E i \in Renders :
        \/ SpawnRender(i) \/ robots_check(i) \/ sem_acquire(i) \/ launch(i)
        \/ new_page(i) \/ goto(i) \/ page_work(i) \/ content(i)
        \/ browser_close(i) \/ playwright_exit(i) \/ cancel_render(i)
        \/ head_object_metadata(i) \/ upload_bytes_to_r2(i)

SpecRender == Init /\ [][NextRender]_vars

\* ------------------------------------------------- the page helpers

\* One page after its navigation, through _auto_scroll and
\* _wait_for_zero_sustained to page.content() and the way out: SpecPage.
\* The clock is read by _wait_for_zero_sustained only and is counted in
\* poll intervals.

\* document.body.scrollHeight
Heights == {1, 2, 3}

\* window.__inflightRequests || 0 as page.evaluate returns it; NoRead is
\* v = None, the read that raised.
NoRead == -1
Reads == {0, 2, NoRead}
Pagers == {1}

\* page.goto has returned for record i.
Navigated(i) ==
    /\ T(i).pc = "idle"
    /\ task' = [task EXCEPT ![i] = [@ EXCEPT !.pc = "r_page", !.kind = "ok",
                                             !.dom = 1, !.branch = "render"]]
    /\ hist' = [hist EXCEPT ![i] = [@ EXCEPT
           !.browser = "open", !.page = "open", !.renders = 1,
           !.gotos = <<<<ReadyConditions[1], "ok">>>>]]
    /\ UNCHANGED <<gov, message_task_semaphore, now, aux, store, loop>>

\* _auto_scroll: last_height = await page.evaluate(...); an exception ends
\* _auto_scroll in the except clause of its caller.
auto_scroll(i) ==
    /\ T(i).pc = "r_page"
    /\ \E h \in Heights \cup {NoRead} :
          task' = [task EXCEPT ![i] =
              IF h = NoRead THEN [@ EXCEPT !.pc = "w_start"]
              ELSE [@ EXCEPT !.pc = "s_scroll", !.last_height = h,
                             !.scroll = 0]]
    /\ UNCHANGED <<hist, gov, message_task_semaphore, now, aux, store, loop>>

\* _auto_scroll has returned or raised: its locals are gone.
ScrollOver(t) == [t EXCEPT !.pc = "w_start", !.last_height = 0, !.scroll = 0]

\* The end of one iteration of the scroll loop with this new height.
ScrollEnd(t, h, stops) ==
    IF stops \/ t.scroll + 1 >= max_scrolls
    THEN ScrollOver(t)
    ELSE [t EXCEPT !.last_height = h, !.scroll = @ + 1]

\* A scroll loop without the comparison of the two heights.
scroll_step_no_break(i) ==
    /\ T(i).pc = "s_scroll"
    /\ \E h \in Heights \cup {NoRead} :
          IF h = NoRead
          THEN /\ task' = [task EXCEPT ![i] = ScrollOver(@)]
               /\ UNCHANGED hist
          ELSE /\ task' = [task EXCEPT ![i] = ScrollEnd(@, h, FALSE)]
               /\ hist' = [hist EXCEPT ![i] = [@ EXCEPT
                      !.scrolls = @ + 1,
                      !.stable = @ \/ h = T(i).last_height]]
    /\ UNCHANGED <<gov, message_task_semaphore, now, aux, store, loop>>

\* One iteration of for i in range(max_scrolls): scrollTo, sleep,
\* new_height; break if new_height == last_height.
scroll_step(i) ==
    /\ T(i).pc = "s_scroll"
    /\ \E h \in Heights \cup {NoRead} :
          IF h = NoRead
          THEN /\ task' = [task EXCEPT ![i] = ScrollOver(@)]
               /\ UNCHANGED hist
          ELSE /\ task' = [task EXCEPT ![i] =
                      ScrollEnd(@, h, h = T(i).last_height)]
               /\ hist' = [hist EXCEPT ![i] = [@ EXCEPT
                      !.scrolls = @ + 1,
                      !.stable = @ \/ h = T(i).last_height]]
    /\ UNCHANGED <<gov, message_task_semaphore, now, aux, store, loop>>

\* _wait_for_zero_sustained: deadline = time.time() + timeout_ms / 1000.0,
\* zeros_seen = 0.
wait_start(i) ==
    /\ T(i).pc = "w_start"
    /\ task' = [task EXCEPT ![i] = [@ EXCEPT !.pc = "w_poll",
                   !.deadline = now + wait_for_no_inflight,
                   !.zeros_seen = 0]]
    /\ UNCHANGED <<hist, gov, message_task_semaphore, now, aux, store, loop>>

\* What the observer of the gauge has after this read: the zero reads in
\* a row at the end of the reads, and a read at or after the deadline.
Polled(h, v, late) ==
    [h EXCEPT !.run = IF v = 0 THEN @ + 1 ELSE 0,
              !.overdue = @ \/ late]

\* A poll that leaves zeros_seen as it is when the read fails.
wait_poll_keeps_count(i) ==
    /\ T(i).pc = "w_poll"
    /\ IF now < T(i).deadline
       THEN \E v \in Reads, dt \in {1, 2} :
               LET seen == IF v = 0 THEN T(i).zeros_seen + 1
                           ELSE IF v = NoRead THEN T(i).zeros_seen
                           ELSE 0
               IN
               /\ hist' = [hist EXCEPT ![i] = Polled(@, v, now >= T(i).deadline)]
               /\ IF v = 0 /\ seen >= zeros_required
                  THEN /\ task' = [task EXCEPT ![i] = [@ EXCEPT
                              !.pc = "w_done", !.zeros_seen = seen,
                              !.settled = "True"]]
                       /\ UNCHANGED now
                  ELSE /\ task' = [task EXCEPT ![i] = [@ EXCEPT
                              !.zeros_seen = seen]]
                       /\ now' = now + dt
       ELSE /\ task' = [task EXCEPT ![i] = [@ EXCEPT !.pc = "w_done",
                                                    !.settled = "False"]]
            /\ UNCHANGED <<hist, now>>
    /\ UNCHANGED <<gov, message_task_semaphore, aux, store, loop>>

\* One turn of while time.time() < deadline: the read (v = None if it
\* raises), the count, the return of True or asyncio.sleep(poll interval),
\* which takes one interval or more; return False once the test fails.
wait_poll(i) ==
    /\ T(i).pc = "w_poll"
    /\ IF now < T(i).deadline
       THEN \E v \in Reads, dt \in {1, 2} :
               LET seen == IF v = 0 THEN T(i).zeros_seen + 1 ELSE 0 IN
               /\ hist' = [hist EXCEPT ![i] = Polled(@, v, now >= T(i).deadline)]
               /\ IF v = 0 /\ seen >= zeros_required
                  THEN /\ task' = [task EXCEPT ![i] = [@ EXCEPT
                              !.pc = "w_done", !.zeros_seen = seen,
                              !.settled = "True"]]
                       /\ UNCHANGED now
                  ELSE /\ task' = [task EXCEPT ![i] = [@ EXCEPT
                              !.zeros_seen = seen]]
                       /\ now' = now + dt
       ELSE /\ task' = [task EXCEPT ![i] = [@ EXCEPT !.pc = "w_done",
                                                    !.settled = "False"]]
            /\ UNCHANGED <<hist, now>>
    /\ UNCHANGED <<gov, message_task_semaphore, aux, store, loop>>

\* if not settled: the debug line, whose page.evaluate may raise into the
\* except clause around the wait; then asyncio.sleep(0.15).
wait_done(i) ==
    /\ T(i).pc = "w_done"
    /\ task' = [task EXCEPT ![i] = [@ EXCEPT !.pc = "r_content"]]
    /\ UNCHANGED <<hist, gov, message_task_semaphore, now, aux, store, loop>>

NextPage ==
    \E i \in Pagers :
        \/ Navigated(i) \/ auto_scroll(i) \/ scroll_step(i) \/ wait_start(i)
        \/ wait_poll(i) \/ wait_done(i) \/ content(i) \/ browser_close(i)
        \/ playwright_exit(i)

\* Every awaited call of the page returns or raises.
SpecPage == Init /\ [][NextPage]_vars /\ WF_vars(NextPage)

\* ------------------------------------------------------------ properties

\* The positions of the events record i has on a topic.
OnTopic(i, topic) ==
    {k \in 1..Len(H(i).events) : H(i).events[k].topic = topic}

\* handle_record has returned for a well-formed record, uncancelled.
Finished(i) == T(i).pc = "done" /\ T(i).kind = "ok" /\ ~H(i).cancelled

\* Every producer.send_and_wait made for record i has returned.
Delivered(i) == H(i).send_failures = 0

\* The only event of record i is a dead-letter event with this reason.
OnlyDeadLetter(i, reason) ==
    /\ Len(H(i).events) = 1
    /\ H(i).events[1].topic = "dlq"
    /\ H(i).events[1].reason = reason

\* The only event of record i is a completion event.
OnlyCompletion(i) ==
    /\ Len(H(i).events) = 1
    /\ H(i).events[1].topic = "out"

\* C1: no record has both a completion event and a dead-letter event,
\* whatever failed and whatever was retried on the way.
C1_NeverBothEvents ==
    \A i \in Tasks : OnTopic(i, "out") = {} \/ OnTopic(i, "dlq") = {}

\* C1 happens: a completion event published after a failed and retried stage.
C1_Witness ==
    \E i \in Tasks :
        /\ T(i).pc = "done"
        /\ OnTopic(i, "out") # {}
        /\ H(i).faults > 0
        /\ H(i).sleeps > 0

\* C2 as the specification states it: a record whose processing is not
\* cancelled and whose sends all return ends with exactly one event: a
\* completion event that follows a metadata write, or a dead-letter event.
C2_ExactlyOneTerminalEvent ==
    \A i \in Tasks :
        Finished(i) /\ Delivered(i) =>
            \/ OnlyCompletion(i) /\ H(i).events[1].writes >= 1
            \/ Len(H(i).events) = 1 /\ H(i).events[1].topic = "dlq"

\* C2's failing case: a record that went down the static path and whose
\* processing ended without any event.
C2_Witness ==
    \E i \in Tasks :
        /\ Finished(i) /\ Delivered(i)
        /\ H(i).temps = 1
        /\ H(i).events = <<>>

\* A task is in flight on domain d from the return of acquire_domain_slot
\* to release_domain_slot.
InFlight(d) ==
    {i \in Tasks : H(i).admitted /\ H(i).releases = 0 /\ T(i).dom = d}

\* C3: at no time are more than per_domain_concurrency tasks in flight on
\* one domain, however many callers ask for it at once.
C3_PerDomainLimit ==
    \A d \in Domains : Cardinality(InFlight(d)) <= PerDomainConcurrency

\* C3 happens: a domain with all its permits in use and a caller waiting.
C3_Witness ==
    \E d \in Registered, j \in Tasks :
        /\ Cardinality(InFlight(d)) = PerDomainConcurrency
        /\ T(j).pc = "acq_dom" /\ T(j).dom = d
        /\ domain_locks[d] = 0

\* The tasks that hold a permit of global_semaphore.
Holders == {i \in Tasks : H(i).held = 1}

\* C4: at no time do more tasks hold a permit of the global semaphore than
\* settings.concurrency.
C4_GlobalLimit == Cardinality(Holders) <= Concurrency

\* C4 happens: every global permit is held and a task that holds its
\* domain's permit waits for one.
C4_Witness ==
    /\ Cardinality(Holders) = Concurrency
    /\ global_semaphore = 0
    /\ \E j \in Tasks : T(j).pc = "acq_glob"

\* C5: an admitted fetch_and_store never releases its slot twice, and has
\* released it once when it has ended, by a return, an exception or a
\* cancellation.
C5_ReleasedExactlyOnce ==
    \A i \in Tasks :
        /\ H(i).releases <= 1
        /\ H(i).admitted /\ T(i).pc \in {"done", "hr_except"}
               => H(i).releases = 1

\* C5 happens: an admitted fetch_and_store left by an exception, and one
\* left by a cancellation, each with its slot released.
C5_Witness ==
    \E i \in Tasks :
        /\ H(i).admitted /\ H(i).releases = 1
        /\ \/ T(i).pc = "hr_except"
           \/ T(i).pc = "done" /\ H(i).cancelled

\* C6 as the specification states it: a 200 response with a static page
\* and no failing stage is uploaded once, upserted, and ends with exactly
\* one completion event and no dead-letter event.
C6_StaticHappyPath ==
    \A i \in Tasks :
        /\ Finished(i) /\ Delivered(i)
        /\ H(i).faults = 0 /\ ~H(i).too_large
        /\ H(i).resps = <<200>> /\ H(i).temps = 1
        => /\ H(i).uploads = 1
           /\ H(i).upserts >= 1
           /\ OnlyCompletion(i)

\* C6's failing case: the static page of a 200 response streamed and
\* hashed, and the record finished with no upload, no upsert, no event.
C6_Witness ==
    \E i \in Tasks :
        /\ Finished(i) /\ Delivered(i)
        /\ H(i).faults = 0 /\ ~H(i).too_large
        /\ H(i).resps = <<200>> /\ H(i).temps = 1
        /\ H(i).uploads = 0 /\ H(i).upserts = 0 /\ H(i).events = <<>>

\* C7 as the specification states it: a first response with status 5xx or
\* 429 is a transient failure, followed by a backoff sleep and another GET.
C7_ServerErrorRetried ==
    \A i \in Tasks :
        /\ Finished(i) /\ Delivered(i) /\ H(i).faults = 0
        /\ H(i).resps # <<>>
        /\ (H(i).resps[1] >= 500 \/ H(i).resps[1] = 429)
        => /\ H(i).transients >= 1
           /\ H(i).sleeps >= 1
           /\ H(i).gets >= 2

\* C7's failing case: a 500 response taken for content, with one GET and
\* no sleep.
C7_Witness ==
    \E i \in Tasks :
        /\ Finished(i) /\ Delivered(i) /\ H(i).faults = 0
        /\ H(i).resps = <<500>>
        /\ H(i).gets = 1 /\ H(i).sleeps = 0 /\ H(i).transients = 0

\* The first response of record i is a 4xx other than 429.
ClientErrorFirst(i) ==
    /\ H(i).resps # <<>>
    /\ H(i).resps[1] \in 400..499
    /\ H(i).resps[1] # 429

\* C8: after a 4xx response other than 429 there is exactly one GET, no
\* sleep, no upload, no render and no upsert, and no event but a
\* dead-letter event; the finished record whose sends returned has exactly
\* one event, a dead-letter event with reason fetch_permanent.
C8_ClientErrorIsPermanent ==
    \A i \in Tasks :
        ClientErrorFirst(i) =>
            /\ H(i).gets = 1
            /\ H(i).sleeps = 0
            /\ H(i).uploads = 0 /\ H(i).renders = 0
            /\ H(i).upserts = 0
            /\ OnTopic(i, "out") = {}
            /\ Len(H(i).events) <= 1
            /\ Finished(i) /\ Delivered(i)
                   => OnlyDeadLetter(i, "fetch_permanent")

\* C8 happens: a record finished after a 404.
C8_Witness ==
    \E i \in Tasks :
        /\ Finished(i) /\ Delivered(i)
        /\ H(i).resps = <<404>>
        /\ OnlyDeadLetter(i, "fetch_permanent")

\* C9 as the specification states it: when every GET of a record fails
\* transiently, fetch_retries GETs are made, the only event is a
\* dead-letter event with reason fetch_error, and nothing is uploaded or
\* upserted.
C9_TransientExhaustion ==
    \A i \in Tasks :
        /\ Finished(i) /\ Delivered(i) /\ ~H(i).too_large
        /\ H(i).gets >= 1 /\ H(i).transients = H(i).gets
        => /\ H(i).gets = fetch_retries
           /\ OnlyDeadLetter(i, "fetch_error")
           /\ H(i).uploads = 0
           /\ H(i).upserts = 0

\* C9's failing case: one GET that failed transiently, a sleep, then the
\* upload called and its failure dead-lettered.
C9_Witness ==
    \E i \in Tasks :
        /\ Finished(i) /\ Delivered(i) /\ ~H(i).too_large
        /\ H(i).gets = 1 /\ H(i).transients = 1 /\ H(i).resps = <<>>
        /\ H(i).uploads = upload_retries
        /\ OnlyDeadLetter(i, "r2_upload_error")

\* C10 as the specification states it: once the streamed body has gone
\* over max_bytes the scratch file is gone and upload is never called.
C10_TooLargeNeverUploaded ==
    \A i \in Tasks :
        H(i).too_large => T(i).temp # "exists" /\ H(i).uploads = 0

\* C10's failing case: a body over max_bytes, its scratch file removed,
\* and the upload called nonetheless.
C10_Witness ==
    \E i \in Tasks :
        /\ H(i).too_large
        /\ T(i).temp = "removed"
        /\ H(i).uploads >= 1

\* C11 as the specification states it: a body over max_bytes is a
\* permanent failure: no further GET and no sleep follow it, and the
\* finished record has one dead-letter event, with reason body_too_large.
C11_TooLargeIsPermanent ==
    \A i \in Tasks :
        H(i).too_large =>
            /\ H(i).gets = 1
            /\ H(i).sleeps = 0
            /\ Finished(i) /\ Delivered(i)
                   => OnlyDeadLetter(i, "body_too_large")

\* C11's failing case: the size error taken for a transient one, slept
\* on, and the record dead-lettered as a failed upload.
C11_Witness ==
    \E i \in Tasks :
        /\ H(i).too_large /\ Finished(i) /\ Delivered(i)
        /\ H(i).transients = 1 /\ H(i).sleeps >= 1
        /\ OnlyDeadLetter(i, "r2_upload_error")

\* The robots check has denied the URL of record i.
RobotsDenied(i) ==
    \/ T(i).exc.cls = "PermissionError"
    \/ \E k \in 1..Len(H(i).events) : H(i).events[k].error = "PermissionError"

\* C12 as the specification states it: when the robots check denies the
\* URL no browser is launched, nothing is retried, and the finished record
\* has one dead-letter event, with reason robots_denied.
C12_RobotsDenied ==
    \A i \in Tasks :
        RobotsDenied(i) =>
            /\ H(i).renders = 0
            /\ H(i).gets = 1 /\ H(i).sleeps = 0
            /\ Finished(i) /\ Delivered(i)
                   => OnlyDeadLetter(i, "robots_denied")

\* C12's failing case: the denial dead-lettered as a failed render.
C12_Witness ==
    \E i \in Tasks :
        /\ Finished(i) /\ Delivered(i)
        /\ H(i).renders = 0
        /\ OnlyDeadLetter(i, "playwright_render_failed")
        /\ H(i).events[1].error = "PermissionError"

\* C13 as the specification states it: a record that does not parse gets
\* exactly one dead-letter event, with reason parse_error; nothing is
\* fetched for it and no slot of the governor is taken.
C13_ParseErrorDeadLettered ==
    \A i \in Tasks :
        T(i).pc = "done" /\ T(i).kind = "malformed" =>
            /\ OnlyDeadLetter(i, "parse_error")
            /\ H(i).gets = 0
            /\ H(i).held = 0 /\ ~H(i).admitted

\* C13's failing case: handle_record has returned for a record that does
\* not parse and there is no event for it.
C13_Witness ==
    \E i \in Tasks :
        /\ T(i).pc = "done" /\ T(i).kind = "malformed"
        /\ H(i).events = <<>>
        /\ H(i).gets = 0 /\ H(i).held = 0

\* The render of record i has returned into fetch_and_store.
Rendered(i) ==
    /\ T(i).branch = "render"
    /\ T(i).pc \in {"db_attempt", "db_sleep", "upsert_dlq", "emit"}

\* C14: the rendered HTML is uploaded if and only if the sha256 read from
\* the stored object's metadata is not the hash of the rendered DOM (no
\* readable sha256 counts as different): the upload is called only with
\* different hashes, a returned render has made no upload call with equal
\* hashes and exactly one, that put the new hash under the key, otherwise.
C14_UploadIffHashDiffers ==
    \A i \in Tasks :
        LET key == rendered_key(today, T(i).dom) IN
        /\ T(i).pc = "render_put" =>
               /\ T(i).old_sha # T(i).sha
               /\ H(i).uploads = 0
               /\ T(i).old_sha # "None" => r2[key] = T(i).old_sha
        /\ Rendered(i) /\ T(i).old_sha = T(i).sha =>
               H(i).uploads = 0 /\ r2[key] = T(i).sha
        /\ Rendered(i) /\ T(i).old_sha # T(i).sha =>
               H(i).uploads = 1 /\ r2[key] = T(i).sha

\* C14 happens: a render whose hash is the stored one has returned, and no
\* upload call was made.
C14_Witness ==
    \E i \in Tasks :
        /\ Rendered(i)
        /\ T(i).old_sha = T(i).sha
        /\ H(i).lookups = 1 /\ H(i).uploads = 0

\* C15 as the specification states it: a record whose object was stored
\* and whose metadata write was tried and never succeeded has one
\* dead-letter event, with reason db_upsert_after_upload_failed, and no
\* completion event.
C15_UpsertFailureDeadLettered ==
    \A i \in Tasks :
        /\ Finished(i) /\ Delivered(i)
        /\ H(i).stored >= 1
        /\ H(i).upserts >= 1 /\ H(i).writes = 0
        => /\ OnlyDeadLetter(i, "db_upsert_after_upload_failed")
           /\ OnTopic(i, "out") = {}

\* C15's failing case: the object is stored, the one call of
\* upsert_metadata wrote nothing and returned None, nothing was retried,
\* and the record has a completion event without a document id.
C15_Witness ==
    \E i \in Tasks :
        /\ Finished(i) /\ Delivered(i)
        /\ H(i).stored = 1
        /\ H(i).upserts = 1 /\ H(i).writes = 0
        /\ OnlyCompletion(i)
        /\ H(i).events[1].doc_id = None

\* The keys under which the bucket has an object for this url.
ObjectsOf(url) == {k \in Keys : k[3] = url /\ r2[k] # NoObject}

\* C16 as the specification states it: when upsert_metadata has written
\* for a url whose row already had the same content hash, the id returned
\* is the id of the one row of that url and the bucket holds one object
\* for that url.
C16_OneRowOneObject ==
    \A i \in Tasks :
        T(i).pc = "emit" /\ H(i).rewrites >= 1 =>
            /\ Cardinality({r \in metadata : r.url = T(i).dom}) = 1
            /\ T(i).doc_id = RowId(metadata, T(i).dom)
            /\ Cardinality(ObjectsOf(T(i).dom)) = 1

\* C16's failing case: the same rendered content stored once more under
\* the key of the next day, next to the object of the day before.
C16_Witness ==
    \E i \in Tasks :
        /\ T(i).pc = "emit" /\ H(i).rewrites = 1
        /\ T(i).branch = "render" /\ today = 2
        /\ r2[rendered_key(1, T(i).dom)] = T(i).sha
        /\ r2[rendered_key(2, T(i).dom)] = T(i).sha
        /\ Cardinality({r \in metadata : r.url = T(i).dom}) = 1
        /\ T(i).doc_id = RowId(metadata, T(i).dom)

\* C17 as the specification states it: a fetch whose content hash is the
\* content_hash already recorded for its URL makes no upload call, on the
\* static path and on the render path.
C17_UnchangedSkipsUpload ==
    \A i \in Tasks :
        /\ T(i).sha \in Hashes
        /\ H(i).upserts = 0
        /\ Unchanged(metadata, T(i).dom, T(i).sha)
        => H(i).uploads = 0

\* C17's failing case: a page rendered to the recorded content hash on
\* the day after; the lookup under the key of the new day finds nothing
\* and the same content is uploaded again.
C17_Witness ==
    \E i \in Tasks :
        /\ Rendered(i) /\ H(i).upserts = 0
        /\ Unchanged(metadata, T(i).dom, T(i).sha)
        /\ today = 2 /\ r2[rendered_key(1, T(i).dom)] = T(i).sha
        /\ H(i).lookups = 1 /\ H(i).uploads = 1 /\ H(i).stored = 1

\* C18: a record creates at most one scratch file, and when
\* fetch_and_store has ended for it, by return, exception or
\* cancellation, that file is not there any more.
C18_ScratchFileRemoved ==
    \A i \in Tasks :
        /\ H(i).temps <= 1
        /\ T(i).pc \in {"done", "hr_except"} => T(i).temp # "exists"

\* C18 happens: streaming into the scratch file failed, and the file was
\* removed by the time the record ended.
C18_Witness ==
    \E i \in Tasks :
        /\ T(i).pc = "done" /\ T(i).temp = "removed"
        /\ H(i).temps = 1 /\ H(i).faults >= 1
        /\ ~H(i).too_large

\* Every task has ended or was never started.
AllEnded == \A i \in Tasks : T(i).pc \in {"idle", "done"}

\* C19 as the specification states it: a cancellation at any suspension
\* point leaks no permit: once every task has ended, all permits of
\* global_semaphore and of every domain's semaphore are available again.
C19_CancellationLeaksNoPermit ==
    AllEnded =>
        /\ global_semaphore = Concurrency
        /\ \A d \in Registered : domain_locks[d] = PerDomainConcurrency

\* C19's failing case: a task cancelled in the politeness sleep of
\* acquire_domain_slot, before fetch_and_store's try; every task has ended
\* and the two permits it had taken are still missing.
C19_Witness ==
    \E i \in Tasks, d \in Registered :
        /\ AllEnded
        /\ H(i).cancelled /\ ~H(i).admitted
        /\ H(i).held = 1 /\ H(i).releases = 0
        /\ global_semaphore < Concurrency
        /\ domain_locks[d] < PerDomainConcurrency

\* C20 as the specification states it: acquire_domain_slot never fails,
\* whatever the domain: no exception reaches handle_record from a
\* fetch_and_store that was not admitted, and a domain that has been asked
\* for has its semaphore.
C20_AcquireNeverFails ==
    \A i \in Tasks :
        /\ T(i).pc = "hr_except" => H(i).admitted
        /\ T(i).pc \in {"acq_glob", "polite"} => domain_locks[T(i).dom] # NoSem

\* C20's failing case: the first record of a domain; acquire_domain_slot
\* has raised AttributeError, no permit was taken and the domain has no
\* semaphore.
C20_Witness ==
    \E i \in Tasks :
        /\ T(i).pc = "hr_except" /\ ~H(i).admitted /\ ~H(i).cancelled
        /\ T(i).exc.cls = "AttributeError"
        /\ H(i).held = 0 /\ H(i).gets = 0
        /\ domain_locks[FreshDomain] = NoSem

\* C21 as the specification states it: when acquire_domain_slot(d)
\* returns, at least per_domain_delay_s has passed since
\* domain_last_req[d], the time of the last release for d.
C21_PolitenessAtReturn ==
    \A i \in Tasks : H(i).admitted => H(i).spacing >= per_domain_delay_s

\* C21's failing case: two tasks share a domain; one is released while
\* the other is held back by its politeness sleep, which was computed
\* from an older release and ends less than per_domain_delay_s after the
\* newer one.
C21_Witness ==
    \E i, j \in Tasks :
        /\ i # j
        /\ H(i).admitted /\ H(i).spacing > 0
        /\ H(i).spacing < per_domain_delay_s
        /\ H(j).releases = 1

\* C22: domain_last_req is written by release_domain_slot only, which
\* sets the entry of the released domain to the time of the release;
\* every other step, those of acquire_domain_slot and polite_wait among
\* them, leaves every entry as it was.
C22_LastReqWrittenAtRelease ==
    [][/\ \A i \in Tasks :
              hist'[i].releases # hist[i].releases =>
                  domain_last_req' =
                      [domain_last_req EXCEPT ![task[i].dom] = now]
       /\ domain_last_req' # domain_last_req =>
              \E i \in Tasks : /\ task[i].pc = "finally"
                               /\ hist'[i].releases = hist[i].releases + 1
      ]_vars

\* C22 happens: a slot was released after the start of the service, the
\* domain's entry holds that time, and a later caller has slept and been
\* admitted without touching it.
C22_Witness ==
    \E i, j \in Tasks :
        /\ i # j
        /\ H(i).releases = 1
        /\ domain_last_req[1] > per_domain_delay_s
        /\ T(j).pc = "get" /\ H(j).releases = 0
        /\ H(j).spacing = now - domain_last_req[1]
        /\ H(j).spacing >= per_domain_delay_s

\* C23 as the specification states it: a second release of one
\* acquisition never lifts the available permits of global_semaphore or
\* of a domain's semaphore above their capacity, and the per-domain limit
\* on tasks in flight still holds afterwards.
C23_DoubleReleaseKeepsBounds ==
    /\ global_semaphore <= Concurrency
    /\ \A d \in Registered :
           /\ domain_locks[d] <= PerDomainConcurrency
           /\ Cardinality(InFlight(d)) <= PerDomainConcurrency

\* C23's failing case: a slot released twice has left a spare permit, and
\* more tasks than per_domain_concurrency are in flight on the domain.
C23_Witness ==
    \E i \in Tasks, d \in Registered :
        /\ H(i).releases = 2 /\ T(i).pc = "done"
        /\ Cardinality(InFlight(d)) > PerDomainConcurrency

\* C24 as the specification states it: fetch_and_store raises nothing
\* but a cancellation: no exception of it arrives in the except clause of
\* handle_record.
C24_NeverRaises ==
    \A i \in Tasks : T(i).pc # "hr_except"

\* C24's failing case: an admitted record whose fetch failed; the
\* dead-letter send in the except clause failed in turn, and that error
\* has left fetch_and_store.
C24_Witness ==
    \E i \in Tasks :
        /\ T(i).pc = "hr_except" /\ H(i).admitted /\ ~H(i).cancelled
        /\ T(i).exc = KafkaError
        /\ H(i).send_failures >= 1 /\ H(i).events = <<>>
        /\ H(i).releases = 1

\* The dead-letter reasons the specification lists.
Taxonomy ==
    {"parse_error", "fetch_permanent", "fetch_error", "robots_denied",
     "body_too_large", "render_failed", "r2_upload_error",
     "db_upsert_after_upload_failed"}

\* C25 as the specification states it: the reason of every dead-letter
\* event is one of the taxonomy.
C25_ReasonsInTaxonomy ==
    \A i \in Tasks :
        \A k \in OnTopic(i, "dlq") : H(i).events[k].reason \in Taxonomy

\* C25's failing case: the browser render raised and the record was
\* dead-lettered with a reason the taxonomy does not have.
C25_Witness ==
    \E i \in Tasks :
        /\ H(i).renders = 1
        /\ \E k \in OnTopic(i, "dlq") :
              /\ H(i).events[k].reason = "playwright_render_failed"
              /\ H(i).events[k].error = "PlaywrightError"

\* The dead-letter events of record i.
DeadLetters(i) == {H(i).events[k] : k \in OnTopic(i, "dlq")}

C27_BackoffDelay ==
    calc.attempt >= 0 =>
        /\ calc.delay = Min(calc.base * Pow2(calc.attempt), calc.cap)
        /\ calc.delay >= calc.prev
        /\ calc.delay <= calc.cap
        /\ calc.attempt = 0 => calc.delay = calc.base

\* C27 happens: with the defaults the delay has doubled from 1 to 16 and
\* attempt 5 is held at the cap.
C27_Witness ==
    /\ calc.base = 1 /\ calc.cap = 30
    /\ calc.attempt = 5
    /\ calc.prev = 16 /\ calc.delay = 30

\* The response has a Content-Type header that contains text/html.
ContentTypeHtml(hd) ==
    hd.key \in {"Content-Type", "content-type"} /\ hd.value \in HtmlTypes

\* The four rules of the specification.
RuleHolds(pg, hd) ==
    \/ pg.root
    \/ pg.react
    \/ pg.scripts >= 3 /\ pg.len < 8000
    \/ ContentTypeHtml(hd) /\ pg.scripts >= 1 /\ pg.len < 2000

\* C28 as the specification states it: the classifier, called with the
\* prefix and the headers of the response, returns rendered exactly when
\* one of the four rules holds.
C28_RenderedIffRule ==
    calc.verdict # "none" =>
        (calc.verdict = "rendered" <=> RuleHolds(calc.pg, calc.hd))

\* C28's failing case: a near-empty text/html shell (one script tag,
\* 1500 bytes, no marker) whose header arrived as Content-Type is taken
\* for a static page.
C28_Witness ==
    /\ calc.hd.key = "Content-Type" /\ calc.hd.value \in HtmlTypes
    /\ ~calc.pg.root /\ ~calc.pg.react
    /\ calc.pg.scripts = 1 /\ calc.pg.len = 1500
    /\ calc.verdict = "static"

Completions(i) == {H(i).events[k] : k \in OnTopic(i, "out")}

\* C30 as the specification states it: a completion event is published
\* only after the object was stored, or the upload skipped for an equal
\* hash, and after the metadata was written; its document_id is the id of
\* the row of its URL, never absent.
C30_CompletionAfterUpsert ==
    \A i \in Tasks :
        \A e \in Completions(i) :
            /\ H(i).stored >= 1 \/ (H(i).lookups >= 1 /\ e.uploads = 0)
            /\ e.writes >= 1
            /\ e.doc_id # None
            /\ e.doc_id = RowId(metadata, e.url.netloc)

\* C30's failing case: the upload was skipped for an equal hash, the
\* upsert wrote nothing and returned None, and the completion event went
\* out without a document id.
C30_Witness ==
    \E i \in Tasks :
        \E e \in Completions(i) :
            /\ H(i).lookups = 1 /\ e.uploads = 0
            /\ H(i).upserts = 1 /\ e.writes = 0
            /\ e.doc_id = None

\* The attempts of each stage that record i has made or is about to make.
GetTurns(i) == H(i).gets + (IF T(i).pc = "get" THEN 1 ELSE 0)
UploadTurns(i) == H(i).raws + (IF T(i).pc = "upload" THEN 1 ELSE 0)
UpsertTurns(i) == H(i).upserts + (IF T(i).pc = "db_attempt" THEN 1 ELSE 0)

\* The backoff sleeps of the fetch loop.
FetchSleeps(i) == H(i).sleeps - H(i).usleeps - H(i).dsleeps

\* A stage whose attempts so far are turns has slept turns - 1 times: once
\* between one attempt and the next.  A cancellation can end the stage
\* after a sleep, in the attempt that was to follow it.
SleptBetween(i, turns, sleeps) ==
    turns >= 1 => \/ sleeps = turns - 1
                  \/ H(i).cancelled /\ sleeps = turns

\* C31: the GETs, the raw uploads and the upserts of a record stay within
\* fetch_retries, upload_retries and db_retries, each counted on its own,
\* and between two consecutive attempts of a stage there is one sleep.
C31_AttemptsWithinBudgets ==
    \A i \in Tasks :
        /\ GetTurns(i) <= fetch_retries
        /\ UploadTurns(i) <= upload_retries
        /\ UpsertTurns(i) <= db_retries
        /\ GetTurns(i) >= 2 => FetchSleeps(i) = GetTurns(i) - 1
        /\ SleptBetween(i, UploadTurns(i), H(i).usleeps)
        /\ SleptBetween(i, UpsertTurns(i), H(i).dsleeps)

\* C31 happens: one record has used up the budget of the upserts and then
\* that of the uploads, with a sleep before every attempt but the first.
C31_Witness ==
    \E i \in Tasks :
        /\ H(i).upserts = db_retries /\ H(i).dsleeps = db_retries - 1
        /\ H(i).raws = upload_retries /\ H(i).usleeps = upload_retries - 1
        /\ H(i).gets = 1

\* The static body of record i was fetched: one 200 response, streamed
\* into the scratch file within max_bytes, and nothing failed but uploads.
StaticFetched(i) ==
    /\ H(i).resps = <<200>> /\ H(i).gets = 1
    /\ H(i).temps = 1 /\ ~H(i).too_large
    /\ H(i).faults = H(i).raws

\* C32 as the specification states it: a fetched static body none of whose
\* uploads succeeds gets upload_retries upload attempts, then one
\* dead-letter event with reason r2_upload_error; the scratch file is
\* removed, and there is no upsert and no completion event.
C32_UploadExhaustion ==
    \A i \in Tasks :
        /\ Finished(i) /\ Delivered(i)
        /\ StaticFetched(i) /\ H(i).stored = 0
        => /\ H(i).raws = upload_retries
           /\ OnlyDeadLetter(i, "r2_upload_error")
           /\ T(i).temp = "removed"
           /\ H(i).upserts = 0
           /\ OnTopic(i, "out") = {}

\* C32's failing case: the static body is fetched and its scratch file
\* removed, and the record has ended without one upload attempt and
\* without a dead-letter event.
C32_Witness ==
    \E i \in Tasks :
        /\ Finished(i) /\ Delivered(i)
        /\ StaticFetched(i) /\ H(i).stored = 0
        /\ T(i).temp = "removed"
        /\ H(i).raws = 0
        /\ OnTopic(i, "dlq") = {}

\* The row of table metadata for this url.
RowOf(url) == CHOOSE r \in metadata : r.url = url

\* C33 as the specification states it: when the render path of a record
\* has uploaded (or found unchanged) the rendered object and its upsert
\* has returned an id, the row of the URL holds the rendered key the
\* upsert was called with.
C33_RowHoldsRenderedKey ==
    \A i \in Tasks :
        /\ Rendered(i) /\ T(i).pc = "emit" /\ T(i).doc_id # None
        => /\ \E r \in metadata : r.url = T(i).dom
           /\ RowOf(T(i).dom).r2_key_rendered = rendered_key(today, T(i).dom)

\* C33's failing case: the rendered object is in the bucket under its key,
\* the upsert has returned the id of the URL's row, and the row has
\* neither a rendered key nor a raw key.
C33_Witness ==
    \E i \in Tasks :
        /\ Rendered(i) /\ T(i).pc = "emit" /\ T(i).doc_id # None
        /\ r2[rendered_key(today, T(i).dom)] = T(i).sha
        /\ RowOf(T(i).dom).id = T(i).doc_id
        /\ RowOf(T(i).dom).r2_key_rendered = NoKey
        /\ RowOf(T(i).dom).r2_key_raw = NoKey

\* The renders that hold a permit of the render semaphore.
RenderHolders == {i \in Tasks : H(i).permit = 1}

\* C34: a render holds its permit from sem.acquire() to the end of the try
\* statement and releases it once, however the try is left; the permits
\* left and the permits held add up to the capacity, so with no render
\* inside its try the semaphore is back at its capacity.
C34_RenderPermitReleased ==
    /\ default_semaphore + Cardinality(RenderHolders) = RenderLimit
    /\ \A i \in Tasks :
           /\ H(i).rreleases <= H(i).racquires
           /\ H(i).racquires <= 1
           /\ H(i).permit = 1 <=> InRenderTry(i) \/ T(i).pc = "r_exit"
           /\ H(i).racquires = 1 /\ H(i).permit = 0 => H(i).rreleases = 1

\* C34 happens: one render has left its try by a navigation error and
\* another by a cancellation, each has released its permit, and the
\* semaphore is at its capacity.
C34_Witness ==
    /\ default_semaphore = RenderLimit
    /\ \E i, j \in Tasks :
          /\ H(i).rreleases = 1 /\ H(i).gotos # <<>>
          /\ H(i).gotos[Len(H(i).gotos)][2] = "error"
          /\ H(j).rreleases = 1 /\ H(j).cancelled

Tried(i) == [k \in 1..Len(H(i).gotos) |-> H(i).gotos[k][1]]
Outcome(i, k) == H(i).gotos[k][2]

\* C36: page.goto is called with networkidle, then load, then
\* domcontentloaded; each call but the first follows a timeout of the one
\* before; after an error that is no timeout, and after a timeout of
\* domcontentloaded, the render has failed and no further call is made.
C36_GotoFallbackOrder ==
    \A i \in Tasks :
        LET n == Len(H(i).gotos) IN
        /\ n <= Len(ReadyConditions)
        /\ Tried(i) = SubSeq(ReadyConditions, 1, n)
        /\ \A k \in 1..(n - 1) : Outcome(i, k) = "timeout"
        /\ n >= 1 /\ (Outcome(i, n) = "error"
                      \/ (Outcome(i, n) = "timeout"
                          /\ n = Len(ReadyConditions)))
               => T(i).pc \notin {"r_goto", "r_page", "r_content", "r_close",
                                  "render_head", "render_put", "db_attempt"}

\* C36 happens: one render has gone through all three conditions and
\* failed on the timeout of the last, another has failed on an error of
\* the second condition without trying the third.
C36_Witness ==
    \E i, j \in Tasks :
        /\ H(i).gotos = <<<<"networkidle", "timeout">>, <<"load", "timeout">>,
                          <<"domcontentloaded", "timeout">>>>
        /\ T(i).pc = "render_dlq"
        /\ H(j).gotos = <<<<"networkidle", "timeout">>, <<"load", "error">>>>
        /\ T(j).pc = "render_dlq"

\* The positions of a render after _wait_for_zero_sustained has returned
\* and the debug line is written: page.content() and what follows it.
AfterWait == {"r_content", "r_close", "r_exit", "render_head", "render_dlq"}

\* C37: _wait_for_zero_sustained returns True only when the last
\* zeros_required reads of the gauge were zero, its count being the zero
\* reads in a row (a non-zero or failed read makes it zero); it makes no
\* read at or after the deadline and returns False only then; and whatever
\* it returns, the render goes on to page.content().
C37_SettleWait ==
    \A i \in Tasks :
        /\ T(i).settled = "True" => H(i).run >= zeros_required
        /\ T(i).pc = "w_poll" =>
               /\ T(i).zeros_seen = H(i).run
               /\ T(i).zeros_seen < zeros_required
               /\ now <= T(i).deadline + 1
        /\ ~H(i).overdue
        /\ T(i).settled = "False" => now >= T(i).deadline
        /\ T(i).settled # "unbound" /\ T(i).pc # "w_done" => T(i).pc \in AfterWait

\* C37 happens: the wait gave up at its deadline without zeros_required
\* zero reads in a row, and the render has left its try with the DOM.
C37_Witness ==
    \E i \in Tasks :
        /\ T(i).settled = "False"
        /\ now >= T(i).deadline
        /\ H(i).run < zeros_required
        /\ T(i).pc = "render_head"
        /\ T(i).sha \in Hashes

\* The scroll loop of record i makes no step after max_scrolls steps or
\* after a step that found the height of the step before.
ScrollBounded(i) ==
    /\ H(i).scrolls <= max_scrolls
    /\ T(i).pc = "s_scroll" =>
           /\ H(i).scrolls = T(i).scroll
           /\ H(i).scrolls < max_scrolls
           /\ ~H(i).stable

\* C38: _auto_scroll makes at most max_scrolls scroll steps, none after
\* the first one whose height equals the height before it, and it ends.
C38_ScrollTerminates ==
    /\ [](\A i \in Tasks : ScrollBounded(i))
    /\ \A i \in Pagers : (T(i).pc = "s_scroll") ~> (T(i).pc # "s_scroll")

\* C38 happens: the height changed at each of max_scrolls steps and the
\* loop ended with the last of them.
C38_Witness ==
    \E i \in Tasks :
        /\ H(i).scrolls = max_scrolls
        /\ ~H(i).stable
        /\ T(i).pc # "s_scroll"

\* ------------------------------------------------- C39: shutdown

\* The record in flight when the consumer task was cancelled.
InFlightAtShutdown(i) ==
    loop.pc = "cancelled" /\ loop.next = i /\ H(i).cancelled

\* The offset of record i is committed: a commit has succeeded with the
\* consumer's position behind record i.
OffsetCommitted(i) == loop.committed >= i

\* What is left of the cancelled record once its coroutine has ended: its
\* offset is not committed, the permits it took are given back and its
\* scratch file is gone.
ShutdownLeft(i) ==
    /\ ~OffsetCommitted(i)
    /\ T(i).pc = "done" => /\ H(i).held = H(i).releases
                           /\ T(i).temp # "exists"

\* A step of the model after which a cancelled record has an event more.
EventAfterCancel ==
    \E i \in Tasks : H(i).cancelled /\ H(i)'.events # H(i).events

\* C39 as the specification states it: on a shutdown signal the record in
\* flight is cancelled at the await it is suspended in; no completion
\* event and no dead-letter event is published for it afterwards, its
\* offset is not committed, and its governor slot and its scratch file are
\* cleaned up.
C39_ShutdownCancelsInFlight ==
    /\ [](\A i \in Tasks : InFlightAtShutdown(i) => ShutdownLeft(i))
    /\ [][~EventAfterCancel]_vars

\* C39's failing case: getmany returned records 1 and 2 in one batch, the
\* commit after record 1 committed the position behind the batch, and the
\* shutdown cancelled record 2 in the politeness sleep of
\* acquire_domain_slot: its offset is committed, its two permits are not
\* given back, and it has no event.
C39_Witness ==
    \E i \in Tasks :
        /\ InFlightAtShutdown(i) /\ T(i).pc = "done"
        /\ i > 1 /\ OffsetCommitted(i)
        /\ H(i).held = 1 /\ H(i).releases = 0 /\ ~H(i).admitted
        /\ H(i).events = <<>>
        /\ global_semaphore < Concurrency

\* ------------------------------------------------- C40: no deadlock

\* The call acquire_domain_slot of record i has not returned: it waits for
\* the domain's permit or for the global permit, or it is in the
\* politeness sleep.
Pending(i) ==
    /\ T(i).pc \in {"acq_dom", "acq_glob", "polite"}
    /\ domain_locks[T(i).dom] # NoSem

\* C40: with the domain's permit taken before the global one, and every
\* admitted record calling release_domain_slot, every pending call of
\* acquire_domain_slot returns under fair scheduling, for any mix of
\* domains of the concurrent records.
C40_AcquireEventuallyReturns ==
    \A i \in Tasks : Pending(i) ~> H(i).admitted

\* C40 happens: all global permits are held by admitted records of other
\* domains, and a record that has taken the last permit of its own domain
\* waits for a global one.
C40_Witness ==
    \E i \in Tasks :
        /\ T(i).pc = "acq_glob" /\ global_semaphore = 0
        /\ domain_locks[T(i).dom] = 0
        /\ Cardinality({k \in Tasks : H(k).admitted /\ H(k).held = 1
                                          /\ T(k).dom # T(i).dom})
               = Concurrency
====
